---- MODULE Spec2Model ----
(***************************************************************************)
(* Model of the result reconciliation and normalisation layer of the       *)
(* travel planner: the activity price route (extractPrice,                 *)
(* estimateActivityPrice, searchActivityPrice, POST), the flight           *)
(* normaliser (processFlightData), the hotel filter (parsePreferences,     *)
(* processHotels), the request validation of the routes, the parse-flight  *)
(* conversation, the trip page and the places-based activities route.      *)
(*                                                                         *)
(* Amounts are integers counted in hundredths (1234.56 is 123456).  A      *)
(* value of type `number | null` is a record [null, v]; JavaScript         *)
(* truthiness of such a value is Truthy.  Text is a TLA+ string, read      *)
(* character by character with SubSeq.                                     *)
(***************************************************************************)
EXTENDS Integers, Sequences, FiniteSets, TLC

VARIABLES
    priceStr,      \* extractPrice: the argument
    pricePc,       \* extractPrice: "idle" | "call" | "done"
    priceOut,      \* extractPrice: the value returned
    label,         \* estimateActivityPrice: the argument
    estPc,         \* estimateActivityPrice: "idle" | "call" | "done"
    estOut,        \* estimateActivityPrice: the value returned
    flData,        \* processFlightData: the provider payload
    flPc,          \* processFlightData: "idle" | "call" | "done"
    flOut,         \* processFlightData: the flights returned
    req,           \* activity route: the request body
    postPc,        \* activity route: "idle" | "start" | "waiting" | "responded"
    proc,          \* activity route: the calls of searchActivityPrice
    response,      \* activity route: the response of POST
    provider,      \* activity route: which provider answers are generated
    hPrefs,        \* hotel route: the preference text of the request
    hData,         \* hotel route: the provider's properties and ads
    hPc,           \* hotel route: "idle" | "call" | "done"
    hFilters,      \* hotel route: the filters parsePreferences returned
    hOut,          \* hotel route: the hotels processHotels returned
    vRoute,        \* validation: the route called
    vBody,         \* validation: the request body
    vPc,           \* validation: "idle" | "parse" | "provider" | "done"
    vStatus,       \* validation: the status of the response
    vCalled,       \* validation: the provider has been called
    vParams,       \* validation: the parameters the provider is called with
    chat,          \* flight chat page: its state and the request in flight
    page,          \* trip page: its React state
    net,           \* trip page: the requests in flight
    plIn,          \* places route: the places found and the model's answer
    plPc,          \* places route: "idle" | "plan" | "done"
    plOut          \* places route: the itinerary of the response

priceVars == <<priceStr, pricePc, priceOut>>

estVars == <<label, estPc, estOut>>

flVars == <<flData, flPc, flOut>>

routeVars == <<req, postPc, proc, response, provider>>

hotelVars == <<hPrefs, hData, hPc, hFilters, hOut>>

vars ==
    <<priceStr, pricePc, priceOut, label, estPc, estOut, flData, flPc, flOut,
      req, postPc, proc, response, provider, hPrefs, hData, hPc, hFilters, hOut,
      vRoute, vBody, vPc, vStatus, vCalled, vParams, chat, page, net, plIn,
      plPc, plOut>>

chatVars == <<chat>>

pageVars == <<page, net>>

placesVars == <<plIn, plPc, plOut>>

valVars == <<vRoute, vBody, vPc, vStatus, vCalled, vParams>>

(***************************************************************************)
(* Bounds of the model.                                                    *)
(***************************************************************************)
MaxLen == 6        \* longest generated price string
MaxWords == 3      \* most words of a generated activity label
MaxItins == 11     \* itineraries of a flight payload beyond the cap of ten
MaxVaried == 5     \* such a payload is of one kind outside a window this long
SmallItins == 3    \* longest payload generated over every itinerary kind
MaxOrganic == 2    \* most organic results of a generated search body
MaxBatch == 2      \* most activities of a generated batch request
MaxLegItins == 2   \* most itineraries of a payload generated with legs
MaxProps == 2      \* most properties of a short hotel listing
MaxListings == 11  \* properties of a long hotel listing
MaxVariedListings == 3  \* properties varied inside a long hotel listing

(***************************************************************************)
(* number | null                                                           *)
(***************************************************************************)
Null == [null |-> TRUE, v |-> 0]

Num(n) == [null |-> FALSE, v |-> n]

\* JavaScript truthiness of a number | null: null and 0 are falsy.
Truthy(p) == ~p.null /\ p.v # 0

(***************************************************************************)
(* string | number | undefined, as the provider's JSON delivers a field.   *)
(***************************************************************************)
Undef == [t |-> "undef", n |-> 0, s |-> ""]

NumField(n) == [t |-> "num", n |-> n, s |-> ""]

StrField(s) == [t |-> "str", n |-> 0, s |-> s]

\* Truthiness of a raw field: undefined, 0 and "" are falsy.
FieldTruthy(f) ==
    CASE f.t = "undef" -> FALSE
      [] f.t = "num" -> f.n # 0
      [] OTHER -> f.s # ""

(***************************************************************************)
(* A component that takes no part in a specification stays idle.           *)
(***************************************************************************)
PriceIdle == priceStr = Undef /\ pricePc = "idle" /\ priceOut = Null

EstimateIdle == label = "" /\ estPc = "idle" /\ estOut = Null

FlightsIdle ==
    /\ flData = [present |-> FALSE, itineraries |-> <<>>]
    /\ flPc = "idle"
    /\ flOut = <<>>

HotelsIdle ==
    /\ hPrefs = ""
    /\ hData = [properties |-> [present |-> FALSE, items |-> <<>>],
                ads |-> [present |-> FALSE, items |-> <<>>]]
    /\ hPc = "idle"
    /\ hFilters = <<>>
    /\ hOut = <<>>

NoParams == <<>>

ValidationIdle ==
    /\ vRoute = ""
    /\ vBody = [object |-> FALSE, fields |-> <<>>]
    /\ vPc = "idle"
    /\ vStatus = 0
    /\ vCalled = FALSE
    /\ vParams = NoParams

RouteIdle ==
    /\ req = [valid |-> FALSE, destination |-> "", activities |-> <<>>]
    /\ postPc = "idle"
    /\ proc = <<>>
    /\ response = [status |-> 0, activities |-> <<>>]
    /\ provider = "none"

ChatIdle == chat = <<>>

PageIdle == page = <<>> /\ net = {}

PlacesIdle == plIn = <<>> /\ plPc = "idle" /\ plOut = <<>>

(***************************************************************************)
(* Characters.                                                             *)
(***************************************************************************)
Digits == {"0", "1", "2", "3", "4", "5", "6", "7", "8", "9"}

CharAt(s, i) == IF i >= 1 /\ i <= Len(s) THEN SubSeq(s, i, i) ELSE ""

IsDigitAt(s, i) == CharAt(s, i) \in Digits

DigitVal(c) ==
    CASE c = "0" -> 0 [] c = "1" -> 1 [] c = "2" -> 2 [] c = "3" -> 3
      [] c = "4" -> 4 [] c = "5" -> 5 [] c = "6" -> 6 [] c = "7" -> 7
      [] c = "8" -> 8 [] c = "9" -> 9

(***************************************************************************)
(* extractPrice: /(\d+(?:,\d{3})*(?:\.\d{2})?)/, then commas removed, then *)
(* parseFloat.                                                             *)
(***************************************************************************)
\* \d+ : the index after the longest run of digits that starts at i.
RECURSIVE DigitRunEnd(_, _)
DigitRunEnd(s, i) == IF IsDigitAt(s, i) THEN DigitRunEnd(s, i + 1) ELSE i

\* (?:,\d{3})* : the index after as many ",ddd" groups as follow j.
RECURSIVE GroupsEnd(_, _)
GroupsEnd(s, j) ==
    IF /\ CharAt(s, j) = ","
       /\ IsDigitAt(s, j + 1) /\ IsDigitAt(s, j + 2) /\ IsDigitAt(s, j + 3)
    THEN GroupsEnd(s, j + 4)
    ELSE j

\* (?:\.\d{2})? : the index after an optional ".dd" at k.
FracEnd(s, k) ==
    IF CharAt(s, k) = "." /\ IsDigitAt(s, k + 1) /\ IsDigitAt(s, k + 2)
    THEN k + 3
    ELSE k

\* The leftmost position where the pattern matches: the first digit (0: none).
RECURSIVE FirstDigit(_, _)
FirstDigit(s, i) ==
    IF i > Len(s) THEN 0
    ELSE IF IsDigitAt(s, i) THEN i
    ELSE FirstDigit(s, i + 1)

\* String(priceStr).match(...)[1], or "" when there is no match.
PriceMatch(s) ==
    LET i == FirstDigit(s, 1)
    IN  IF i = 0 THEN ""
        ELSE SubSeq(s, i, FracEnd(s, GroupsEnd(s, DigitRunEnd(s, i))) - 1)

\* A replace that removes nothing: the commas stay in the matched text.
StripCommasKept(s) == s

\* .replace(/,/g, "")
RECURSIVE StripCommas(_)
StripCommas(s) ==
    IF s = "" THEN ""
    ELSE IF CharAt(s, 1) = "," THEN StripCommas(Tail(s))
    ELSE CharAt(s, 1) \o StripCommas(Tail(s))

\* The integer read from the digits of s that start at i, given acc so far.
RECURSIVE ReadInt(_, _, _)
ReadInt(s, i, acc) ==
    IF IsDigitAt(s, i) THEN ReadInt(s, i + 1, acc * 10 + DigitVal(CharAt(s, i)))
    ELSE acc

\* parseFloat of a text that starts with a digit: the longest prefix that
\* is a decimal literal, in hundredths (at most two decimals are read, the
\* pattern yields no more).
ParseFloat(s) ==
    LET e == DigitRunEnd(s, 1)
        whole == ReadInt(s, 1, 0)
        d1 == IF CharAt(s, e) = "." /\ IsDigitAt(s, e + 1)
              THEN DigitVal(CharAt(s, e + 1)) ELSE 0
        d2 == IF CharAt(s, e) = "." /\ IsDigitAt(s, e + 1) /\ IsDigitAt(s, e + 2)
              THEN DigitVal(CharAt(s, e + 2)) ELSE 0
    IN  whole * 100 + d1 * 10 + d2

extractPrice(f) ==
    IF f.t = "num" THEN Num(f.n)
    ELSE IF ~FieldTruthy(f) THEN Null
    ELSE LET m == PriceMatch(f.s)
         IN  IF m # "" THEN Num(ParseFloat(StripCommas(m))) ELSE Null

(***************************************************************************)
(* estimateActivityPrice: the label is lower-cased and tested against an   *)
(* ordered list of patterns; the first that matches decides.               *)
(***************************************************************************)
UpperCase == <<"A", "B", "C", "D", "E", "F", "G", "H", "I", "J", "K", "L", "M",
               "N", "O", "P", "Q", "R", "S", "T", "U", "V", "W", "X", "Y", "Z">>

LowerCase == <<"a", "b", "c", "d", "e", "f", "g", "h", "i", "j", "k", "l", "m",
               "n", "o", "p", "q", "r", "s", "t", "u", "v", "w", "x", "y", "z">>

LowerChar(c) ==
    IF \E k \in 1..26 : UpperCase[k] = c
    THEN LowerCase[CHOOSE k \in 1..26 : UpperCase[k] = c]
    ELSE c

\* activity.toLowerCase()
RECURSIVE ToLowerCase(_)
ToLowerCase(s) ==
    IF s = "" THEN "" ELSE LowerChar(CharAt(s, 1)) \o ToLowerCase(Tail(s))

\* The literal w stands in s at position i.
LiteralAt(s, i, w) ==
    i >= 1 /\ i + Len(w) - 1 <= Len(s) /\ SubSeq(s, i, i + Len(w) - 1) = w

\* \s* from position i: the index after the run of white space.
RECURSIVE SpacesEnd(_, _)
SpacesEnd(s, i) == IF CharAt(s, i) = " " THEN SpacesEnd(s, i + 1) ELSE i

\* A pattern is a list of literals with white space between them: gap 0
\* is \s*, gap 1 is \s+.  PartsAt: parts k.. of pat stand in s from i.
RECURSIVE PartsAt(_, _, _, _)
PartsAt(s, i, pat, k) ==
    /\ LiteralAt(s, i, pat.parts[k])
    /\ \/ k = Len(pat.parts)
       \/ /\ k < Len(pat.parts)
          /\ LET j == i + Len(pat.parts[k])
                 e == SpacesEnd(s, j)
             IN  e - j >= pat.gap /\ PartsAt(s, e, pat, k + 1)

\* /pat/.test(s)
TestPattern(s, pat) == \E i \in 1..Len(s) : PartsAt(s, i, pat, 1)

\* /a|b|.../.test(s)
TestAny(s, alts) == \E pat \in alts : TestPattern(s, pat)

Lit(w) == [parts |-> <<w>>, gap |-> 0]

Lits(ws) == {Lit(w) : w \in ws}

Opt(a, b) == [parts |-> <<a, b>>, gap |-> 0]

Sep(parts) == [parts |-> parts, gap |-> 1]

\* walk|stroll|wander|explore\s+(?:the\s+)?(?:streets?|neighborhood|area)
\*   |park|garden|beach|sunset|sunrise|window\s*shop
FreePatterns ==
    Lits({"walk", "stroll", "wander", "park", "garden", "beach", "sunset",
          "sunrise"})
        \cup {Sep(<<"explore", w>>) : w \in {"street", "neighborhood", "area"}}
        \cup {Sep(<<"explore", "the", w>>) :
                  w \in {"street", "neighborhood", "area"}}
        \cup {Opt("window", "shop")}

\* shop|shopping|market|mall
ShoppingPatterns == Lits({"shop", "shopping", "market", "mall"})

RuleFree == [alts |-> FreePatterns, price |-> Num(0)]

\* The rules that follow the free-activity rule, in the order of the code.
RulesAfterFree ==
    << [alts |-> Lits({"museum", "gallery", "exhibit"}), price |-> Num(2500)],
       [alts |-> Lits({"temple", "shrine", "church", "cathedral"}),
        price |-> Num(1000)],
       [alts |-> Lits({"tower", "observation", "viewpoint", "skydeck"}),
        price |-> Num(3500)],
       [alts |-> Lits({"zoo", "aquarium"}), price |-> Num(3000)],
       [alts |-> {Opt("theme", "park")}
                     \cup Lits({"amusement", "disney", "universal"}),
        price |-> Num(10000)],
       [alts |-> Lits({"breakfast", "brunch"}), price |-> Num(2000)],
       [alts |-> Lits({"lunch", "cafe", "coffee"}), price |-> Num(2500)],
       [alts |-> Lits({"dinner", "restaurant", "dining"}), price |-> Num(5000)],
       [alts |-> {Opt("street", "food"), Lit("market"), Opt("food", "stall")},
        price |-> Num(1500)],
       [alts |-> {Opt("fine", "dining"), Lit("michelin")}, price |-> Num(15000)],
       [alts |-> Lits({"bar", "cocktail", "drink", "nightlife"}),
        price |-> Num(4000)],
       [alts |-> Lits({"tour", "guided"}), price |-> Num(4500)],
       [alts |-> {Opt("cooking", "class"), Lit("workshop")}, price |-> Num(8000)],
       [alts |-> Lits({"spa", "massage", "wellness"}), price |-> Num(10000)],
       [alts |-> Lits({"cruise", "boat"}), price |-> Num(6000)],
       [alts |-> Lits({"hike", "hiking", "trek"}), price |-> Num(0)],
       [alts |-> Lits({"bike", "cycling", "rental"}), price |-> Num(3000)],
       [alts |-> Lits({"snorkel", "dive", "diving"}), price |-> Num(8000)],
       [alts |-> Lits({"surf", "lesson"}), price |-> Num(7000)],
       [alts |-> ShoppingPatterns, price |-> Null] >>

\* The free-activity test moved behind every other rule.
EstimateRulesFreeLast == RulesAfterFree \o <<RuleFree>>

EstimateRules == <<RuleFree>> \o RulesAfterFree

\* Default estimate for unknown activities.
DefaultEstimate == Num(2500)

\* The chain of `if (/.../.test(lower)) return ...` from rule k on.
RECURSIVE FirstMatch(_, _, _)
FirstMatch(lower, rules, k) ==
    IF k > Len(rules) THEN DefaultEstimate
    ELSE IF TestAny(lower, rules[k].alts) THEN rules[k].price
    ELSE FirstMatch(lower, rules, k + 1)

estimateActivityPrice(activity) ==
    FirstMatch(ToLowerCase(activity), EstimateRules, 1)

(***************************************************************************)
(* searchActivityPrice, the pure part: the tiers over the local variables  *)
(* of one call.  An absent text (undefined) is "".                         *)
(***************************************************************************)
\* The local variables as declared before the first tier runs.
InitialLocals ==
    [link |-> "", source |-> "Unknown", price |-> Null,
     fmt |-> [k |-> "", v |-> 0, s |-> ""],
     description |-> "", rating |-> 0, reviews |-> 0, thumbnail |-> ""]

\* `$${n}`, `~$${n}`, a fixed text, or the provider's own text.
Formatted(k, n) == [k |-> k, v |-> n, s |-> ""]

FixedText(s) == [k |-> "text", v |-> 0, s |-> s]

\* The index of the first occurrence of w in s from i on (0: none).
RECURSIVE IndexOf(_, _, _)
IndexOf(s, w, i) ==
    IF i + Len(w) - 1 > Len(s) THEN 0
    ELSE IF SubSeq(s, i, i + Len(w) - 1) = w THEN i
    ELSE IndexOf(s, w, i + 1)

\* s.includes(w)
Includes(s, w) == IndexOf(s, w, 1) # 0

\* s.replace(w, ""): the first occurrence of w removed.
RemoveFirst(s, w) ==
    LET i == IndexOf(s, w, 1)
    IN  IF i = 0 THEN s
        ELSE SubSeq(s, 1, i - 1) \o SubSeq(s, i + Len(w), Len(s))

\* new URL(url).hostname for an http(s) URL; "" when new URL throws.
Hostname(url) ==
    LET lower == ToLowerCase(url)
        from == IF LiteralAt(lower, 1, "https://") THEN 9
                ELSE IF LiteralAt(lower, 1, "http://") THEN 8
                ELSE 0
        slash == IF from = 0 THEN 0 ELSE IndexOf(lower, "/", from)
    IN  IF from = 0 THEN ""
        ELSE SubSeq(lower, from, IF slash = 0 THEN Len(lower) ELSE slash - 1)

extractDomain(url) ==
    IF url = "" THEN "Unknown"
    ELSE IF Hostname(url) = "" THEN "Unknown"
    ELSE RemoveFirst(Hostname(url), "www.")

\* /tripadvisor|yelp|expedia|booking\.com|viator|getyourguide|klook|timeout
\*  |thrillist|eater/i
AggregatorPatterns ==
    Lits({"tripadvisor", "yelp", "expedia", "booking.com", "viator",
          "getyourguide", "klook", "timeout", "thrillist", "eater"})

isAggregator(r) ==
    TestAny(ToLowerCase(extractDomain(r.link)), AggregatorPatterns)

\* organic_results.find(r => !isAggregator): its index (0: undefined).
RECURSIVE FindOfficial(_, _)
FindOfficial(organic, k) ==
    IF k > Len(organic) THEN 0
    ELSE IF ~isAggregator(organic[k]) THEN k
    ELSE FindOfficial(organic, k + 1)

\* USD|dollars? at j, any letter case.
UnitAt(s, j) ==
    LiteralAt(ToLowerCase(s), j, "usd") \/ LiteralAt(ToLowerCase(s), j, "dollar")

\* /\$(\d+(?:\.\d{2})?)|(\d+(?:\.\d{2})?)\s*(?:USD|dollars?)/i tried at i:
\* the captured amount text, or "" when the pattern does not match there.
SnippetMatchAt(s, i) ==
    IF CharAt(s, i) = "$" /\ IsDigitAt(s, i + 1)
    THEN SubSeq(s, i + 1, FracEnd(s, DigitRunEnd(s, i + 1)) - 1)
    ELSE IF IsDigitAt(s, i)
    THEN LET e == DigitRunEnd(s, i)
             f == FracEnd(s, e)
         IN  IF UnitAt(s, SpacesEnd(s, f)) THEN SubSeq(s, i, f - 1)
             ELSE IF UnitAt(s, SpacesEnd(s, e)) THEN SubSeq(s, i, e - 1)
             ELSE ""
    ELSE ""

\* (result.snippet || "").match(...): the leftmost match from i on.
RECURSIVE SnippetMatch(_, _)
SnippetMatch(s, i) ==
    IF i > Len(s) THEN ""
    ELSE IF SnippetMatchAt(s, i) # "" THEN SnippetMatchAt(s, i)
    ELSE SnippetMatch(s, i + 1)

\* The loop over organic_results: the first snippet with a price decides.
RECURSIVE ScanSnippets(_, _, _)
ScanSnippets(L, organic, k) ==
    IF k > Len(organic) THEN L
    ELSE LET m == SnippetMatch(organic[k].snippet, 1)
         IN  IF m # ""
             THEN [L EXCEPT !.price = Num(ParseFloat(m)),
                            !.fmt = Formatted("$", ParseFloat(m))]
             ELSE ScanSnippets(L, organic, k + 1)

\* a || b || c on texts.
FirstText(a, b, c) == IF a # "" THEN a ELSE IF b # "" THEN b ELSE c

\* Priority 1: knowledge graph.
Tier1(L, kg, activity) ==
    IF ~kg.present THEN L
    ELSE LET found == extractPrice(kg.price)
             L1 == [L EXCEPT
                      !.link = FirstText(kg.website, kg.reservation_link,
                                         kg.directions_link),
                      !.source = IF kg.title # "" THEN kg.title ELSE activity,
                      !.description = kg.description,
                      !.rating = IF kg.rating # 0 THEN kg.rating ELSE @,
                      !.reviews = IF kg.reviews # 0 THEN kg.reviews ELSE @]
         IN  IF FieldTruthy(kg.price)
             THEN [L1 EXCEPT
                     !.price = found,
                     !.fmt = IF Truthy(found) THEN Formatted("$", found.v)
                             ELSE FixedText("Price varies")]
             ELSE L1

\* Priority 2 run whether or not a link is known yet.
Tier2Always(L, places) ==
    IF Len(places) > 0
    THEN LET place == places[1]
             link == FirstText(place.website, place.link, "")
             found == extractPrice(place.price)
             L1 == [L EXCEPT
                      !.link = link,
                      !.source = IF place.title # "" THEN place.title
                                 ELSE extractDomain(link),
                      !.rating = place.rating,
                      !.reviews = place.reviews,
                      !.thumbnail = place.thumbnail]
         IN  IF FieldTruthy(place.price)
             THEN [L1 EXCEPT
                     !.price = found,
                     !.fmt = IF Truthy(found) THEN Formatted("$", found.v)
                             ELSE FixedText(place.price.s)]
             ELSE L1
    ELSE L

\* Priority 2: the first local result, when no link is known yet.
Tier2(L, places) ==
    IF L.link = "" /\ Len(places) > 0
    THEN LET place == places[1]
             link == FirstText(place.website, place.link, "")
             found == extractPrice(place.price)
             L1 == [L EXCEPT
                      !.link = link,
                      !.source = IF place.title # "" THEN place.title
                                 ELSE extractDomain(link),
                      !.rating = place.rating,
                      !.reviews = place.reviews,
                      !.thumbnail = place.thumbnail]
         IN  IF FieldTruthy(place.price)
             THEN [L1 EXCEPT
                     !.price = found,
                     !.fmt = IF Truthy(found) THEN Formatted("$", found.v)
                             ELSE FixedText(place.price.s)]
             ELSE L1
    ELSE L

\* Priority 3: the organic results, when no link is known yet.
Tier3(L, organic) ==
    IF L.link = "" /\ Len(organic) > 0
    THEN LET k == FindOfficial(organic, 1)
             site == IF k # 0 THEN organic[k] ELSE organic[1]
             L1 == [L EXCEPT
                      !.link = site.link,
                      !.source = IF site.source # "" THEN site.source
                                 ELSE extractDomain(site.link),
                      !.description = site.snippet]
         IN  ScanSnippets(L1, organic, 1)
    ELSE L

\* The three tiers over the body of the web search.
ApplySearch(L, data, activity) ==
    Tier3(Tier2(Tier1(L, data.kg, activity), data.places), data.organic)

\* The first shopping result, its link and source taken over any other.
ApplyShoppingOver(L, results) ==
    IF Len(results) > 0
    THEN LET result == results[1]
             price == extractPrice(IF FieldTruthy(result.price) THEN result.price
                                   ELSE result.extracted_price)
         IN  IF Truthy(price)
             THEN [L EXCEPT !.price = price,
                            !.fmt = Formatted("$", price.v),
                            !.link = result.link,
                            !.source = IF result.source # "" THEN result.source
                                       ELSE "Booking"]
             ELSE L
    ELSE L

\* The first shopping result, applied to the locals.
ApplyShopping(L, results) ==
    IF Len(results) > 0
    THEN LET result == results[1]
             price == extractPrice(IF FieldTruthy(result.price) THEN result.price
                                   ELSE result.extracted_price)
         IN  IF Truthy(price)
             THEN LET L1 == [L EXCEPT !.price = price,
                                      !.fmt = Formatted("$", price.v)]
                  IN  IF L.link = ""
                      THEN [L1 EXCEPT
                              !.link = result.link,
                              !.source = IF result.source # "" THEN result.source
                                         ELSE "Booking"]
                      ELSE L1
             ELSE L
    ELSE L

\* Fall back to the estimate if nothing was found.
ApplyEstimate(L, activity) ==
    IF ~Truthy(L.price)
    THEN LET est == estimateActivityPrice(activity)
         IN  [L EXCEPT !.price = est,
                       !.fmt = IF Truthy(est) THEN Formatted("~$", est.v)
                               ELSE FixedText("Free/Varies")]
    ELSE L

\* The record returned at the end of the try block.
Returned(L, activity, destination) ==
    [name |-> activity, searchQuery |-> activity \o " " \o destination,
     price |-> L.price, price_formatted |-> L.fmt, source |-> L.source,
     link |-> L.link, description |-> L.description, rating |-> L.rating,
     reviews |-> L.reviews, thumbnail |-> L.thumbnail]

\* The record returned by the catch block.
Fallback(activity, destination) ==
    LET est == estimateActivityPrice(activity)
    IN  [name |-> activity, searchQuery |-> activity \o " " \o destination,
         price |-> est,
         price_formatted |-> IF Truthy(est) THEN Formatted("~$", est.v)
                             ELSE FixedText("Free/Varies"),
         source |-> "Estimated", link |-> "", description |-> "", rating |-> 0,
         reviews |-> 0, thumbnail |-> ""]

(***************************************************************************)
(* The activity price route: POST starts one searchActivityPrice per       *)
(* activity and answers when Promise.all settles.  Each call is a process  *)
(* that stops at its awaits: the web search and its body, the shopping     *)
(* search and its body.  A fetch may throw, answer not-ok, or answer ok;   *)
(* reading a body may throw or deliver the data.                           *)
(***************************************************************************)
NoKg ==
    [present |-> FALSE, title |-> "", website |-> "", reservation_link |-> "",
     directions_link |-> "", description |-> "", rating |-> 0, reviews |-> 0,
     price |-> Undef]

Panel(title, website, price) ==
    [present |-> TRUE, title |-> title, website |-> website,
     reservation_link |-> "", directions_link |-> "",
     description |-> "panel description", rating |-> 46, reviews |-> 1000,
     price |-> price]

Panels(titles, websites, prices) ==
    {Panel(t, w, p) : t \in titles, w \in websites, p \in prices}

Place(title, website, link, price) ==
    [title |-> title, website |-> website, link |-> link, rating |-> 44,
     reviews |-> 50, thumbnail |-> "place.jpg", price |-> price]

Organic(link, source, snippet) ==
    [link |-> link, source |-> source, snippet |-> snippet]

OrganicKinds ==
    {Organic("https://www.tripadvisor.com/Attraction_Review", "Tripadvisor",
             "Tickets from $15.50 per adult"),
     Organic("https://www.yelp.com/biz/bar", "", "Cozy hidden bar"),
     Organic("https://speakeasy.tokyo/menu", "Speakeasy Tokyo",
             "Cover charge 20 USD"),
     Organic("", "", "Free entry, $0"),
     Organic("https://www.grandtheater.org/", "Grand Theater", "")}

ShoppingResult(price, extracted, link, source) ==
    [price |-> price, extracted_price |-> extracted, link |-> link,
     source |-> source]

SearchBody(kg, places, organic) ==
    [got |-> TRUE, kg |-> kg, places |-> places, organic |-> organic]

NoBody == [got |-> FALSE, kg |-> NoKg, places |-> <<>>, organic |-> <<>>]

SomePlace == Place("Bar High Five", "https://www.barhighfive.jp/", "", StrField("$20"))

OfficialOrganic ==
    Organic("https://speakeasy.tokyo/menu", "Speakeasy Tokyo", "Cover charge 20 USD")

AggregatorOrganic == Organic("https://www.yelp.com/biz/bar", "", "Cozy hidden bar")

\* The bodies a web search answers with.  The full provider varies the
\* knowledge graph beside a few local and organic results, the local
\* result beside a few organic results, and the organic results alone
\* (at most n of them).
SearchBodies(prov, n) ==
    IF prov = "full"
    THEN {SearchBody(kg, places, organic) :
              kg \in Panels({"", "Eiffel Tower"},
                            {"", "https://www.toureiffel.paris/en"},
                            {Undef, StrField("$25"), StrField("Free"),
                             StrField("$0"), NumField(0)})
                     \cup {[Panel("Eiffel Tower", "", StrField("$25")) EXCEPT
                               !.reservation_link = "https://book.example.com/eiffel"],
                           [Panel("", "", Undef) EXCEPT
                               !.directions_link = "https://maps.example.com/dir/1"]},
              places \in {<<>>, <<SomePlace>>},
              organic \in {<<>>, <<OfficialOrganic>>}}
         \cup
         {SearchBody(NoKg, <<Place(t, w, l, p)>>, organic) :
              t \in {"", "Bar High Five"},
              w \in {"", "https://www.barhighfive.jp/"},
              l \in {"", "https://maps.example.com/place/1"},
              p \in {Undef, StrField("$$"), StrField("$20")},
              organic \in {<<>>, <<AggregatorOrganic>>}}
         \cup
         {SearchBody(NoKg, <<>>, organic) :
              organic \in UNION {[1..m -> OrganicKinds] : m \in 0..n}}
    ELSE {SearchBody(NoKg, <<>>, <<>>),
          SearchBody(Panel("Eiffel Tower", "https://www.toureiffel.paris/en",
                           StrField("$25")), <<>>, <<>>),
          SearchBody(NoKg, <<>>, <<AggregatorOrganic>>)}

ShoppingsOf(prov) ==
    IF prov = "full"
    THEN {<<>>} \cup
         {<<ShoppingResult(p[1], p[2], "https://tickets.example.com/t", s)>> :
              p \in {<<StrField("$18.00"), NumField(1800)>>,
                     <<Undef, NumField(1800)>>,
                     <<StrField("$0"), NumField(0)>>},
              s \in {"", "Tickets.com"}}
    ELSE {<<>>,
          <<ShoppingResult(StrField("$18.00"), NumField(1800),
                           "https://tickets.example.com/t", "Tickets.com")>>}

ActivityNames == <<"hidden speakeasy bar", "shopping mall", "science museum">>

\* The m activity names of a request: those of ActivityNames after the
\* first r of them.
NamesFrom(r, m) == SubSeq(ActivityNames, r + 1, r + m)

\* One call of searchActivityPrice before it starts.
NewCall(activity) ==
    [pc |-> "new", activity |-> activity, L |-> InitialLocals,
     searchData |-> NoBody, shopping |-> <<>>, shoppingCalled |-> FALSE,
     threw |-> "", settled |-> "", value |-> Fallback("", "")]

\* The promise of a call that threw at `at`, rejected instead of caught.
Rethrown(c, destination, at) ==
    [c EXCEPT !.pc = "done", !.threw = at, !.settled = "rejected"]

\* catch (error): the promise is fulfilled with the fallback record.
Caught(c, destination, at) ==
    [c EXCEPT !.pc = "done", !.threw = at, !.settled = "fulfilled",
              !.value = Fallback(c.activity, destination)]

\* The end of the try block: estimate if needed, then return.
Finished(c, destination) ==
    LET L == ApplyEstimate(c.L, c.activity)
    IN  [c EXCEPT !.pc = "done", !.L = L, !.settled = "fulfilled",
                  !.value = Returned(L, c.activity, destination)]

\* After the tiers: `if (!foundPrice)` issues the shopping search.
AfterSearch(c, destination) ==
    IF ~Truthy(c.L.price)
    THEN [c EXCEPT !.pc = "shopping", !.shoppingCalled = TRUE]
    ELSE Finished(c, destination)

Calls == DOMAIN proc

CallIds == 1..MaxBatch

\* POST with a body that passes ActivitySearchRequest.parse: every call
\* is started and runs to its first await.
PostStart ==
    /\ postPc = "start"
    /\ req.valid
    /\ proc' = [i \in 1..Len(req.activities) |->
                   [NewCall(req.activities[i]) EXCEPT !.pc = "search"]]
    /\ postPc' = "waiting"
    /\ UNCHANGED <<req, response, provider, priceVars, estVars, flVars, hotelVars, valVars, chatVars, pageVars, placesVars>>

\* POST with a body that fails the parse: ZodError, status 400.
PostReject ==
    /\ postPc = "start"
    /\ ~req.valid
    /\ response' = [status |-> 400, activities |-> <<>>]
    /\ postPc' = "responded"
    /\ UNCHANGED <<req, proc, provider, priceVars, estVars, flVars, hotelVars, valVars, chatVars, pageVars, placesVars>>

SearchThrows(i) ==
    /\ i \in Calls
    /\ proc[i].pc = "search"
    /\ proc' = [proc EXCEPT ![i] = Caught(@, req.destination, "search")]
    /\ UNCHANGED <<req, postPc, response, provider, priceVars, estVars, flVars, hotelVars, valVars, chatVars, pageVars, placesVars>>

SearchNotOk(i) ==
    /\ i \in Calls
    /\ proc[i].pc = "search"
    /\ proc' = [proc EXCEPT ![i] = AfterSearch(@, req.destination)]
    /\ UNCHANGED <<req, postPc, response, provider, priceVars, estVars, flVars, hotelVars, valVars, chatVars, pageVars, placesVars>>

SearchOk(i) ==
    /\ i \in Calls
    /\ proc[i].pc = "search"
    /\ proc' = [proc EXCEPT ![i].pc = "searchBody"]
    /\ UNCHANGED <<req, postPc, response, provider, priceVars, estVars, flVars, hotelVars, valVars, chatVars, pageVars, placesVars>>

SearchBodyThrows(i) ==
    /\ i \in Calls
    /\ proc[i].pc = "searchBody"
    /\ proc' = [proc EXCEPT ![i] = Caught(@, req.destination, "searchBody")]
    /\ UNCHANGED <<req, postPc, response, provider, priceVars, estVars, flVars, hotelVars, valVars, chatVars, pageVars, placesVars>>

SearchBodyRead(i) ==
    /\ i \in Calls
    /\ proc[i].pc = "searchBody"
    /\ \E data \in SearchBodies(provider, MaxOrganic) :
              proc' = [proc EXCEPT ![i] =
                          AfterSearch([@ EXCEPT
                                         !.searchData = data,
                                         !.L = ApplySearch(@, data,
                                                   proc[i].activity)],
                                      req.destination)]
    /\ UNCHANGED <<req, postPc, response, provider, priceVars, estVars, flVars, hotelVars, valVars, chatVars, pageVars, placesVars>>

ShoppingThrows(i) ==
    /\ i \in Calls
    /\ proc[i].pc = "shopping"
    /\ proc' = [proc EXCEPT ![i] = Caught(@, req.destination, "shopping")]
    /\ UNCHANGED <<req, postPc, response, provider, priceVars, estVars, flVars, hotelVars, valVars, chatVars, pageVars, placesVars>>

ShoppingNotOk(i) ==
    /\ i \in Calls
    /\ proc[i].pc = "shopping"
    /\ proc' = [proc EXCEPT ![i] = Finished(@, req.destination)]
    /\ UNCHANGED <<req, postPc, response, provider, priceVars, estVars, flVars, hotelVars, valVars, chatVars, pageVars, placesVars>>

ShoppingOk(i) ==
    /\ i \in Calls
    /\ proc[i].pc = "shopping"
    /\ proc' = [proc EXCEPT ![i].pc = "shoppingBody"]
    /\ UNCHANGED <<req, postPc, response, provider, priceVars, estVars, flVars, hotelVars, valVars, chatVars, pageVars, placesVars>>

ShoppingBodyThrows(i) ==
    /\ i \in Calls
    /\ proc[i].pc = "shoppingBody"
    /\ proc' = [proc EXCEPT ![i] = Caught(@, req.destination, "shoppingBody")]
    /\ UNCHANGED <<req, postPc, response, provider, priceVars, estVars, flVars, hotelVars, valVars, chatVars, pageVars, placesVars>>

ShoppingBodyRead(i) ==
    /\ i \in Calls
    /\ proc[i].pc = "shoppingBody"
    /\ \E results \in ShoppingsOf(provider) :
          proc' = [proc EXCEPT ![i] =
                      Finished([@ EXCEPT !.shopping = results,
                                         !.L = ApplyShopping(@, results)],
                               req.destination)]
    /\ UNCHANGED <<req, postPc, response, provider, priceVars, estVars, flVars, hotelVars, valVars, chatVars, pageVars, placesVars>>

\* await Promise.all(pricePromises), then the response; a rejected promise
\* rejects the whole and POST answers with status 500.
PostRespond ==
    /\ postPc = "waiting"
    /\ \A i \in Calls : proc[i].pc = "done"
    /\ response' =
           IF \E i \in Calls : proc[i].settled = "rejected"
           THEN [status |-> 500, activities |-> <<>>]
           ELSE [status |-> 200,
                 activities |-> [i \in Calls |-> proc[i].value]]
    /\ postPc' = "responded"
    /\ UNCHANGED <<req, proc, provider, priceVars, estVars, flVars, hotelVars, valVars, chatVars, pageVars, placesVars>>

Next ==
    \/ PostStart
    \/ PostReject
    \/ PostRespond
    \/ \E i \in CallIds : SearchThrows(i)
    \/ \E i \in CallIds : SearchNotOk(i)
    \/ \E i \in CallIds : SearchOk(i)
    \/ \E i \in CallIds : SearchBodyThrows(i)
    \/ \E i \in CallIds : SearchBodyRead(i)
    \/ \E i \in CallIds : ShoppingThrows(i)
    \/ \E i \in CallIds : ShoppingNotOk(i)
    \/ \E i \in CallIds : ShoppingOk(i)
    \/ \E i \in CallIds : ShoppingBodyThrows(i)
    \/ \E i \in CallIds : ShoppingBodyRead(i)

\* The requests: a body the schema rejects, or a destination and a list
\* of at most n activity names.
RouteInit(n, prov) ==
    /\ \/ req = [valid |-> FALSE, destination |-> "", activities |-> <<>>]
       \/ \E m \in 0..n, r \in 0..Len(ActivityNames) :
              /\ r + m <= Len(ActivityNames)
              /\ req = [valid |-> TRUE, destination |-> "Tokyo",
                        activities |-> NamesFrom(r, m)]
    /\ postPc = "start"
    /\ proc = <<>>
    /\ response = [status |-> 0, activities |-> <<>>]
    /\ provider = prov
    /\ PriceIdle
    /\ EstimateIdle
    /\ FlightsIdle
    /\ HotelsIdle
    /\ ValidationIdle
    /\ ChatIdle
    /\ PageIdle
    /\ PlacesIdle

\* One activity, every provider answer.
Init == RouteInit(1, "full")

Spec == Init /\ [][Next]_vars

\* A batch of activities, a few provider answers.
BatchInit == RouteInit(MaxBatch, "small")

SpecBatch == BatchInit /\ [][Next]_vars

(***************************************************************************)
(* Claims about the activity price route.                                  *)
(***************************************************************************)
Threw(i) == proc[i].threw # ""

\* C1: when POST answers a valid request of N activity names, it answers
\* with success and exactly N results, result i carrying the name of
\* input i; a call whose upstream request threw is answered by the
\* estimate fallback record, whatever happened to the other calls.
C1_BatchOneToOne ==
    (postPc = "responded" /\ req.valid) =>
        /\ response.status = 200
        /\ Len(response.activities) = Len(req.activities)
        /\ \A i \in 1..Len(req.activities) :
               /\ response.activities[i].name = req.activities[i]
               /\ Threw(i) =>
                      response.activities[i] =
                          Fallback(req.activities[i], req.destination)

C1_Witness ==
    /\ postPc = "responded"
    /\ response.status = 200
    /\ Len(req.activities) >= 2
    /\ \E i, j \in Calls :
           /\ Threw(i)
           /\ ~Threw(j)
           /\ response.activities[i].source = "Estimated"
           /\ response.activities[j].source # "Estimated"

\* What the tiers before the shopping search established for call i.
Established(i) ==
    ApplySearch(InitialLocals, proc[i].searchData, proc[i].activity)

\* C2: a throw at any tier counts as no result from that tier: after a
\* throw in the web search the shopping search is still issued, and after
\* a throw in the shopping search the result still carries the link, the
\* source label and the metadata the web search established.
C2_ThrowIsEmptyTier ==
    \A i \in Calls :
        proc[i].pc = "done" =>
            /\ proc[i].threw \in {"search", "searchBody"} =>
                   proc[i].shoppingCalled
            /\ proc[i].threw \in {"shopping", "shoppingBody"} =>
                   /\ proc[i].value.link = Established(i).link
                   /\ proc[i].value.source = Established(i).source
                   /\ proc[i].value.description = Established(i).description
                   /\ proc[i].value.rating = Established(i).rating
                   /\ proc[i].value.reviews = Established(i).reviews
                   /\ proc[i].value.thumbnail = Established(i).thumbnail

\* Call i returned from its try block after reading a knowledge panel
\* whose price field yields a positive amount.
PanelPriced(i) ==
    /\ proc[i].pc = "done"
    /\ ~Threw(i)
    /\ proc[i].searchData.got
    /\ proc[i].searchData.kg.present
    /\ Truthy(extractPrice(proc[i].searchData.kg.price))

PanelLink(i) ==
    LET kg == proc[i].searchData.kg
    IN  FirstText(kg.website, kg.reservation_link, kg.directions_link)

\* C3 as stated: a knowledge panel with a price (and a title) decides the
\* price and the source label whatever the panel's links, the local
\* listings and the organic results are.
C3_PanelPriceAlways ==
    \A i \in Calls :
        (PanelPriced(i) /\ proc[i].searchData.kg.title # "") =>
            /\ proc[i].value.price = extractPrice(proc[i].searchData.kg.price)
            /\ proc[i].value.source = proc[i].searchData.kg.title

\* C3: a knowledge panel whose price field yields a positive amount
\* decides the price, and its title (the activity name when it has none)
\* is the source label, without a shopping search, provided the panel
\* carries a link or there is neither a local listing nor an organic
\* result.
C3_PanelPriceWithLink ==
    \A i \in Calls :
        (/\ PanelPriced(i)
         /\ \/ PanelLink(i) # ""
            \/ /\ proc[i].searchData.places = <<>>
               /\ proc[i].searchData.organic = <<>>) =>
            LET kg == proc[i].searchData.kg
            IN  /\ proc[i].value.price = extractPrice(kg.price)
                /\ proc[i].value.source =
                       (IF kg.title # "" THEN kg.title ELSE proc[i].activity)
                /\ proc[i].value.link = PanelLink(i)
                /\ ~proc[i].shoppingCalled

C3_Witness ==
    \E i \in Calls :
        /\ PanelPriced(i)
        /\ PanelLink(i) # ""
        /\ proc[i].searchData.places # <<>>
        /\ proc[i].searchData.organic # <<>>
        /\ proc[i].searchData.kg.title = "Eiffel Tower"
        /\ proc[i].value.source = "Eiffel Tower"
        /\ proc[i].value.price = Num(2500)

\* No live tier supplied a price to call i.
NoLivePrice(i) ==
    /\ proc[i].pc = "done"
    /\ ~Threw(i)
    /\ ApplyShopping(Established(i), proc[i].shopping).price = Null

\* C4: when no live tier supplies a price, the result carries the
\* estimator's value for the activity and the source label "Estimated".
C4_EstimateLabelled ==
    \A i \in Calls :
        NoLivePrice(i) =>
            /\ proc[i].value.price = estimateActivityPrice(proc[i].activity)
            /\ proc[i].value.source = "Estimated"

\* The knowledge panel of call i reports the price 0 beside a link.
PanelReportsZero(i) ==
    /\ proc[i].pc = "done"
    /\ ~Threw(i)
    /\ proc[i].searchData.got
    /\ proc[i].searchData.kg.present
    /\ PanelLink(i) # ""
    /\ proc[i].searchData.kg.price \in {StrField("$0"), NumField(0)}

\* C5: a price of 0 reported by a live tier is the price of the result:
\* no shopping search is issued and no estimate replaces it.
C5_ZeroIsResolved ==
    \A i \in Calls :
        PanelReportsZero(i) =>
            /\ proc[i].value.price = Num(0)
            /\ ~proc[i].shoppingCalled

\* C18: the shopping search is issued only when the knowledge panel, the
\* local listing and the organic snippets supplied no price: in every
\* state of a call that read a search body, a shopping request made means
\* the three tiers left the price null.
C18_ShoppingOnlyWithoutPrice ==
    \A i \in Calls :
        (proc[i].searchData.got /\ proc[i].shoppingCalled) =>
            Established(i).price = Null

\* The first shopping result of call i supplied the price.
ShoppingPriced(i) ==
    /\ proc[i].pc = "done"
    /\ ~Threw(i)
    /\ proc[i].shoppingCalled
    /\ proc[i].shopping # <<>>
    /\ LET result == proc[i].shopping[1]
       IN  Truthy(extractPrice(IF FieldTruthy(result.price) THEN result.price
                               ELSE result.extracted_price))

\* C19: when the shopping result supplies the price, a link established by
\* an earlier tier and its source label are returned unchanged; the
\* shopping result's link and source (or "Booking") are returned only
\* when no link was established.
C19_ShoppingKeepsLink ==
    \A i \in Calls :
        ShoppingPriced(i) =>
            LET result == proc[i].shopping[1]
            IN  IF Established(i).link # ""
                THEN /\ proc[i].value.link = Established(i).link
                     /\ proc[i].value.source = Established(i).source
                ELSE /\ proc[i].value.link = result.link
                     /\ proc[i].value.source =
                            (IF result.source # "" THEN result.source ELSE "Booking")

C19_Witness ==
    \E i \in Calls :
        /\ ShoppingPriced(i)
        /\ proc[i].searchData.kg.present
        /\ proc[i].value.link = "https://www.toureiffel.paris/en"
        /\ proc[i].value.source = "Eiffel Tower"
        /\ proc[i].shopping[1].source = "Tickets.com"
        /\ proc[i].value.price = Num(1800)

\* Call i read a search body with organic results and no link from the
\* knowledge panel or the local listing.
Tier3Reached(i) ==
    /\ proc[i].pc = "done"
    /\ ~Threw(i)
    /\ proc[i].searchData.got
    /\ proc[i].searchData.organic # <<>>
    /\ ~proc[i].searchData.kg.present \/ PanelLink(i) = ""
    /\ \/ proc[i].searchData.places = <<>>
       \/ FirstText(proc[i].searchData.places[1].website,
                    proc[i].searchData.places[1].link, "") = ""

\* The domain of the result is on the deny-list.
Denied(r) ==
    \E w \in {"tripadvisor", "yelp", "expedia", "booking.com", "viator",
              "getyourguide", "klook", "timeout", "thrillist", "eater"} :
        Includes(ToLowerCase(extractDomain(r.link)), w)

\* The organic result tier 3 is to choose: the first not denied, else the
\* first.
Preferred(organic) ==
    IF \E k \in 1..Len(organic) : ~Denied(organic[k])
    THEN organic[CHOOSE k \in 1..Len(organic) :
                     /\ ~Denied(organic[k])
                     /\ \A j \in 1..(k - 1) : Denied(organic[j])]
    ELSE organic[1]

\* C20: tier 3 takes the link of the first organic result whose domain is
\* not on the deny-list, of the very first result when all are on it, so
\* that a link is returned whenever organic results exist.
C20_Tier3AlwaysLinks ==
    \A i \in Calls :
        Tier3Reached(i) =>
            /\ Established(i).link = Preferred(proc[i].searchData.organic).link
            /\ proc[i].value.link # ""

(***************************************************************************)
(* The estimator on its own: every label of at most MaxWords words of      *)
(* LabelWords, and the labels of the documented scenarios.                 *)
(***************************************************************************)
LabelWords ==
    {"walk", "theme", "park", "market", "shopping", "shop", "mall", "window",
     "museum", "tour", "local", "bar"}

RECURSIVE Labels(_)
Labels(n) ==
    IF n = 0 THEN {""}
    ELSE LET P == Labels(n - 1)
         IN  P \cup {IF p = "" THEN w ELSE p \o " " \o w :
                         p \in P, w \in LabelWords}

SampleLabels ==
    {"Sunset Beach Walk", "local market shopping", "hidden speakeasy bar",
     "theme park visit", "Window  Shopping", "themepark", "fine dining",
     "Explore the Streets", "explore  area", "Eiffel Tower", "souvenir shopping",
     "street food market", "cooking class", "Shopping Mall",
     "Michelin star tasting", "Disney day", "amusement rides"}

EstimateInit ==
    /\ label \in Labels(MaxWords) \cup SampleLabels
    /\ estPc = "call"
    /\ estOut = Null
    /\ PriceIdle
    /\ FlightsIdle
    /\ RouteIdle
    /\ HotelsIdle
    /\ ValidationIdle
    /\ ChatIdle
    /\ PageIdle
    /\ PlacesIdle

CallEstimate ==
    /\ estPc = "call"
    /\ estOut' = estimateActivityPrice(label)
    /\ estPc' = "done"
    /\ UNCHANGED <<label, priceVars, flVars, routeVars, hotelVars, valVars, chatVars, pageVars, placesVars>>

(***************************************************************************)
(* The price extractor on its own: every text of at most MaxLen            *)
(* characters over PriceAlphabet, the texts and numbers the providers are  *)
(* known to send, and an absent field.                                     *)
(***************************************************************************)
PriceAlphabet == {"$", ",", ".", "1", "2"}

RECURSIVE Texts(_)
Texts(n) ==
    IF n = 0 THEN {""}
    ELSE LET P == Texts(n - 1)
         IN  P \cup {p \o c : p \in P, c \in PriceAlphabet}

SamplePriceTexts ==
    {"$1,234.56", "1234.56", "1234", "Free", "$$", "From $25.00 per adult",
     "1,234,567.89", "12,3456.78", "0", "$0.00", "007"}

PriceInputs ==
    {StrField(s) : s \in Texts(MaxLen) \cup SamplePriceTexts}
        \cup {NumField(n) : n \in {0, 2500, 123456}}
        \cup {Undef}

PriceInit ==
    /\ priceStr \in PriceInputs
    /\ pricePc = "call"
    /\ priceOut = Null
    /\ EstimateIdle
    /\ FlightsIdle
    /\ RouteIdle
    /\ HotelsIdle
    /\ ValidationIdle
    /\ ChatIdle
    /\ PageIdle
    /\ PlacesIdle

CallExtractPrice ==
    /\ pricePc = "call"
    /\ priceOut' = extractPrice(priceStr)
    /\ pricePc' = "done"
    /\ UNCHANGED <<priceStr, estVars, flVars, routeVars, hotelVars, valVars, chatVars, pageVars, placesVars>>

PriceNext == CallExtractPrice

SpecPrice == PriceInit /\ [][PriceNext]_vars

EstimateNext == CallEstimate

SpecEstimate == EstimateInit /\ [][EstimateNext]_vars

(***************************************************************************)
(* processFlightData: the itineraries are sorted by resolved price and     *)
(* the first ten become flights.  An itinerary is [id, cheapest, option]:  *)
(* cheapest_price?.amount and pricing_options?.[0]?.price?.amount, each a  *)
(* raw field; amounts are whole numbers here.                              *)
(***************************************************************************)
MaxResults == 10

Infinity == [inf |-> TRUE, v |-> 0]

Finite(n) == [inf |-> FALSE, v |-> n]

\* a.cheapest_price?.amount || a.pricing_options?.[0]?.price?.amount || 0,
\* taken as the sort key: the absent price sorts first.
SortPriceZero(it) ==
    IF FieldTruthy(it.cheapest) THEN Finite(it.cheapest.n)
    ELSE IF FieldTruthy(it.option) THEN Finite(it.option.n)
    ELSE Finite(0)

\* a.cheapest_price?.amount || a.pricing_options?.[0]?.price?.amount || Infinity
SortPrice(it) ==
    IF FieldTruthy(it.cheapest) THEN Finite(it.cheapest.n)
    ELSE IF FieldTruthy(it.option) THEN Finite(it.option.n)
    ELSE Infinity

\* priceB - priceA: the most expensive first.
CompareDescending(a, b) ==
    LET pa == SortPrice(a)
        pb == SortPrice(b)
    IN  CASE pa.inf /\ pb.inf -> "nan"
          [] pa.inf -> "neg"
          [] pb.inf -> "pos"
          [] pa.v > pb.v -> "neg"
          [] pa.v < pb.v -> "pos"
          [] OTHER -> "zero"

\* priceA - priceB, by sign; Infinity - Infinity is NaN.
Compare(a, b) ==
    LET pa == SortPrice(a)
        pb == SortPrice(b)
    IN  CASE pa.inf /\ pb.inf -> "nan"
          [] pa.inf -> "pos"
          [] pb.inf -> "neg"
          [] pa.v < pb.v -> "neg"
          [] pa.v > pb.v -> "pos"
          [] OTHER -> "zero"

\* A sort that also puts b before a when the comparator is zero.
ComesAfterOrTies(a, b) == Compare(a, b) # "neg"

\* Array.prototype.sort takes a comparator result of NaN as +0; b goes
\* before a only when the comparator is positive.
ComesAfter(a, b) == Compare(a, b) = "pos"

\* x put into the sorted list: behind every element it does not precede.
RECURSIVE Insert(_, _)
Insert(sorted, x) ==
    IF sorted = <<>> THEN <<x>>
    ELSE LET last == sorted[Len(sorted)]
         IN  IF ComesAfter(last, x)
             THEN Append(Insert(SubSeq(sorted, 1, Len(sorted) - 1), x), last)
             ELSE Append(sorted, x)

\* [...items].sort(comparator): the stable sort of the engine.
RECURSIVE SortItineraries(_)
SortItineraries(items) ==
    IF items = <<>> THEN <<>>
    ELSE Insert(SortItineraries(SubSeq(items, 1, Len(items) - 1)),
                items[Len(items)])

\* .slice(0, 10)
Slice(items, n) == SubSeq(items, 1, IF Len(items) < n THEN Len(items) ELSE n)

\* itinerary.cheapest_price?.amount || ...pricing_options?.[0]... || 0
CheapestPrice(it) ==
    IF FieldTruthy(it.cheapest) THEN it.cheapest.n
    ELSE IF FieldTruthy(it.option) THEN it.option.n
    ELSE 0

\* An id of the provider: a string, or a number (s is its decimal text).
StrId(s) == [num |-> FALSE, s |-> s]

NumId(s) == [num |-> TRUE, s |-> s]

\* undefined: not a string, so equal to no key of a map.
UndefinedId == NumId("undefined")

\* String(id)
StringOf(id) == StrId(id.s)

Absent == [present |-> FALSE, items |-> <<>>]

Collection(items) == [present |-> TRUE, items |-> items]

Missing == [found |-> FALSE]

\* new Map(collection?.map(x => [String(x.id), x]) || []).get(key): the
\* last item whose String(id) is the key, itself compared as it is.
RECURSIVE MapGetFrom(_, _, _)
MapGetFrom(items, key, k) ==
    IF k = 0 THEN Missing
    ELSE IF StringOf(items[k].id) = key THEN [found |-> TRUE, item |-> items[k]]
    ELSE MapGetFrom(items, key, k - 1)

MapGet(collection, key) == MapGetFrom(collection.items, key, Len(collection.items))

\* The id at place k of leg_ids, undefined beyond its end.
IdAt(ids, k) == IF k <= Len(ids) THEN ids[k] ELSE UndefinedId

\* places.get(id): iata, else name, else String(id); the leg level has no
\* name step.
PlaceText(data, id, withName) ==
    LET p == MapGet(data.places, id)
    IN  IF p.found /\ p.item.iata # "" THEN p.item.iata
        ELSE IF withName /\ p.found /\ p.item.name # "" THEN p.item.name
        ELSE id.s

CarrierText(data, id) ==
    LET c == MapGet(data.carriers, id)
    IN  IF c.found /\ c.item.name # "" THEN c.item.name
        ELSE IF c.found /\ c.item.iata # "" THEN c.item.iata
        ELSE ""

NoSegment == [resolved |-> FALSE]

\* The callback of segment_ids.map: null for an unknown segment.
ToSegment(data, segId) ==
    LET seg == MapGet(data.segments, segId)
    IN  IF ~seg.found THEN NoSegment
        ELSE [resolved |-> TRUE,
              from |-> PlaceText(data, seg.item.origin_place_id, TRUE),
              to |-> PlaceText(data, seg.item.destination_place_id, TRUE),
              departure |-> seg.item.departure,
              arrival |-> seg.item.arrival,
              duration |-> seg.item.duration,
              flightNumber |-> seg.item.marketing_flight_number,
              carrier |-> CarrierText(data, seg.item.marketing_carrier_id)]

\* .filter(Boolean)
RECURSIVE FilterResolved(_)
FilterResolved(segs) ==
    IF segs = <<>> THEN <<>>
    ELSE IF segs[1].resolved THEN <<segs[1]>> \o FilterResolved(Tail(segs))
    ELSE FilterResolved(Tail(segs))

\* The mapped segments with the nulls left in.
LegSegmentsUnfiltered(data, leg) ==
    [k \in 1..Len(leg.segment_ids) |-> ToSegment(data, leg.segment_ids[k])]

LegSegments(data, leg) ==
    FilterResolved([k \in 1..Len(leg.segment_ids) |->
                       ToSegment(data, leg.segment_ids[k])])

PlaceholderLeg ==
    [from |-> "", to |-> "", departure |-> "", arrival |-> "", duration |-> 0,
     stops |-> 0, segments |-> <<>>]

processLeg(data, found) ==
    IF ~found.found THEN PlaceholderLeg
    ELSE LET leg == found.item
         IN  [from |-> PlaceText(data, leg.origin_place_id, FALSE),
              to |-> PlaceText(data, leg.destination_place_id, FALSE),
              departure |-> leg.departure,
              arrival |-> leg.arrival,
              duration |-> leg.duration,
              stops |-> leg.stop_count,
              segments |-> LegSegments(data, leg)]

ToFlight(data, it) ==
    [id |-> it.id, price |-> CheapestPrice(it),
     outbound |-> processLeg(data, MapGet(data.legs, IdAt(it.leg_ids, 1))),
     return |-> processLeg(data, MapGet(data.legs, IdAt(it.leg_ids, 2)))]

processFlightData(data) ==
    IF ~data.present THEN <<>>
    ELSE LET top == Slice(SortItineraries(data.itineraries), MaxResults)
         IN  [k \in 1..Len(top) |-> ToFlight(data, top[k])]

(***************************************************************************)
(* The flight normaliser on its own.  Payloads of at most SmallItins        *)
(* itineraries range over every itinerary kind; payloads of MaxItins       *)
(* itineraries are of one of three kinds outside a window of MaxVaried     *)
(* itineraries, which range over the three.  An itinerary's id is its      *)
(* place in the provider's array.                                          *)
(***************************************************************************)
ItineraryKinds ==
    {[cheapest |-> c, option |-> o] :
        c \in {Undef, NumField(0), NumField(1), NumField(2)},
        o \in {Undef, NumField(1), NumField(2)}}

LongKinds ==
    {[cheapest |-> NumField(2), option |-> NumField(1)],
     [cheapest |-> Undef, option |-> NumField(1)],
     [cheapest |-> Undef, option |-> Undef]}

\* The payload whose k-th itinerary is of kind f[k].
PayloadOf(n, f) ==
    [present |-> TRUE,
     itineraries |-> [k \in 1..n |-> [id |-> k, cheapest |-> f[k].cheapest,
                                      option |-> f[k].option,
                                      leg_ids |-> <<>>]],
     legs |-> Absent, segments |-> Absent, places |-> Absent,
     carriers |-> Absent]

NoItineraries ==
    [present |-> FALSE, itineraries |-> <<>>, legs |-> Absent,
     segments |-> Absent, places |-> Absent, carriers |-> Absent]

FlightsInit ==
    /\ \/ flData = NoItineraries
       \/ \E n \in 0..SmallItins : \E f \in [1..n -> ItineraryKinds] :
              flData = PayloadOf(n, f)
       \/ \E fill \in LongKinds, start \in 0..(MaxItins - MaxVaried) :
              \E g \in [1..MaxVaried -> LongKinds] :
                  flData = PayloadOf(MaxItins,
                               [k \in 1..MaxItins |->
                                    IF k > start /\ k <= start + MaxVaried
                                    THEN g[k - start] ELSE fill])
    /\ flPc = "call"
    /\ flOut = <<>>
    /\ PriceIdle
    /\ EstimateIdle
    /\ RouteIdle
    /\ HotelsIdle
    /\ ValidationIdle
    /\ ChatIdle
    /\ PageIdle
    /\ PlacesIdle

CallProcessFlightData ==
    /\ flPc = "call"
    /\ flOut' = processFlightData(flData)
    /\ flPc' = "done"
    /\ UNCHANGED <<flData, priceVars, estVars, routeVars, hotelVars, valVars, chatVars, pageVars, placesVars>>

FlightsNext == CallProcessFlightData

SpecFlights == FlightsInit /\ [][FlightsNext]_vars

(***************************************************************************)
(* Leg resolution on its own: one or two itineraries over a provider       *)
(* graph of two legs, four segments, five places and one carrier, of       *)
(* which any collection may be absent and single records may be missing.   *)
(* Place 13554 has a number for its id, the other places a string.         *)
(***************************************************************************)
ProviderPlace(id, iata, name) == [id |-> id, iata |-> iata, name |-> name]

ProviderSegment(id, from, to, departure, arrival, duration, number) ==
    [id |-> StrId(id), origin_place_id |-> from,
     destination_place_id |-> to, departure |-> departure,
     arrival |-> arrival, duration |-> duration,
     marketing_flight_number |-> number, marketing_carrier_id |-> StrId("c1")]

ProviderLeg(id, segs, from, to, departure, arrival, duration, stops) ==
    [id |-> id, segment_ids |-> segs, origin_place_id |-> StrId(from),
     destination_place_id |-> StrId(to), departure |-> departure,
     arrival |-> arrival, duration |-> duration, stop_count |-> stops]

AllSegments ==
    <<ProviderSegment("s1", StrId("p1"), StrId("p2"), "08:00", "09:00", 60, "BA1"),
      ProviderSegment("s2", StrId("p2"), StrId("p3"), "10:00", "11:00", 60, "BA2"),
      ProviderSegment("s3", StrId("p3"), StrId("p4"), "12:00", "13:00", 60, ""),
      ProviderSegment("s4", StrId("p4"), NumId("13554"), "18:00", "23:00", 300,
                      "BA4")>>

\* The sequence without its k-th element.
Without(seq, k) == SubSeq(seq, 1, k - 1) \o SubSeq(seq, k + 1, Len(seq))

SegmentChoices ==
    {Absent, Collection(<<>>), Collection(AllSegments)}
        \cup {Collection(Without(AllSegments, k)) : k \in 1..Len(AllSegments)}

OutboundLeg ==
    ProviderLeg(StrId("l1"), <<StrId("s1"), StrId("s2"), StrId("s3")>>,
                "p1", "p4", "08:00", "13:00", 300, 2)

ReturnLeg ==
    ProviderLeg(StrId("l2"), <<StrId("s4")>>, "p4", "p1", "18:00", "23:00", 300, 0)

\* A leg whose id is the number 7 and which names its segment by number.
NumberedLeg ==
    ProviderLeg(NumId("7"), <<NumId("4")>>, "p4", "p1", "18:00", "23:00", 300, 0)

LegChoices ==
    {Absent, Collection(<<>>), Collection(<<OutboundLeg>>),
     Collection(<<OutboundLeg, ReturnLeg>>),
     Collection(<<OutboundLeg, NumberedLeg>>)}

PlaceChoices ==
    {Absent,
     Collection(<<ProviderPlace(StrId("p1"), "JFK", "New York"),
                  ProviderPlace(StrId("p2"), "LHR", "London"),
                  ProviderPlace(StrId("p3"), "CDG", "Paris"),
                  ProviderPlace(StrId("p4"), "FCO", "Rome"),
                  ProviderPlace(NumId("13554"), "LAX", "Los Angeles")>>),
     Collection(<<ProviderPlace(StrId("p1"), "JFK", "New York"),
                  ProviderPlace(StrId("p2"), "", "London"),
                  ProviderPlace(StrId("p4"), "", "Rome"),
                  ProviderPlace(NumId("13554"), "", "Los Angeles")>>)}

CarrierChoices ==
    {Absent,
     Collection(<<[id |-> StrId("c1"), name |-> "British Airways", iata |-> "BA"]>>),
     Collection(<<[id |-> StrId("c1"), name |-> "", iata |-> "BA"]>>)}

LegIdChoices ==
    {<<>>, <<StrId("l1")>>, <<StrId("l1"), StrId("l2")>>,
     <<StrId("l1"), NumId("7")>>, <<StrId("l1"), StrId("7")>>}

LegsInit ==
    /\ \E n \in 1..MaxLegItins : \E f \in [1..n -> LegIdChoices] :
       \E legs \in LegChoices, segments \in SegmentChoices,
          places \in PlaceChoices, carriers \in CarrierChoices :
           flData = [present |-> TRUE,
                     itineraries |-> [k \in 1..n |->
                                         [id |-> k, cheapest |-> NumField(n + 1 - k),
                                          option |-> Undef, leg_ids |-> f[k]]],
                     legs |-> legs, segments |-> segments, places |-> places,
                     carriers |-> carriers]
    /\ flPc = "call"
    /\ flOut = <<>>
    /\ PriceIdle
    /\ EstimateIdle
    /\ RouteIdle
    /\ HotelsIdle
    /\ ValidationIdle
    /\ ChatIdle
    /\ PageIdle
    /\ PlacesIdle

SpecLegs == LegsInit /\ [][FlightsNext]_vars

(***************************************************************************)
(* The hotel route: parsePreferences turns the free-text preference into   *)
(* filters, processHotels normalises and filters the provider's listings.  *)
(* Prices are whole numbers; hotel_class 0 is an absent star class.        *)
(***************************************************************************)
Spaced(parts) == [parts |-> parts, gap |-> 0]

\* The exclusion patterns, in the order of the code, each with its type.
ExclusionPatterns ==
    << [alts |-> {Opt("no", "hostel"), Opt("no", "backpacker")}, type |-> "hostel"],
       [alts |-> {Spaced(<<d, "want", w>>) :
                     d \in {"don't", "dont"}, w \in {"hostel", "backpacker"}},
        type |-> "hostel"],
       [alts |-> {Opt("avoid", "hostel"), Opt("avoid", "backpacker")},
        type |-> "hostel"],
       [alts |-> {Opt("no", "motel")}, type |-> "motel"],
       [alts |-> {Spaced(<<d, "want", "motel">>) : d \in {"don't", "dont"}},
        type |-> "motel"],
       [alts |-> {Opt("no", "airbnb")}, type |-> "vacation rental"],
       [alts |-> {Spaced(<<"no", "vacation", "rental">>)},
        type |-> "vacation rental"],
       [alts |-> {Opt("hotel", "only"), Opt("hotels", "only")},
        type |-> "vacation rental"],
       [alts |-> {Opt("no", "budget")}, type |-> "budget"],
       [alts |-> {Opt("no", "cheap")}, type |-> "budget"] >>

NoFilters ==
    [excludeTypes |-> <<>>, minStars |-> Null, maxStars |-> Null,
     preferLuxury |-> FALSE, preferBudget |-> FALSE,
     excludeVacationRentals |-> FALSE]

\* The loop over the exclusion patterns from pattern k on.
RECURSIVE ApplyExclusions(_, _, _)
ApplyExclusions(filters, lower, k) ==
    IF k > Len(ExclusionPatterns) THEN filters
    ELSE LET rule == ExclusionPatterns[k]
             next ==
                 IF ~TestAny(lower, rule.alts) THEN filters
                 ELSE IF rule.type = "vacation rental"
                 THEN [filters EXCEPT !.excludeVacationRentals = TRUE]
                 ELSE IF rule.type = "budget"
                 THEN [filters EXCEPT !.minStars = Num(3)]
                 ELSE [filters EXCEPT !.excludeTypes = Append(@, rule.type)]
         IN  ApplyExclusions(next, lower, k + 1)

\* A star pattern: the literals of pre, each followed by \s*, then the
\* digit, then \s* (none when tight), then one of the alternatives of post.
StarPattern(pre, tight, post, exact) ==
    [pre |-> pre, tight |-> tight, post |-> post, exact |-> exact]

MinWords == {"above", "higher", "+", "min"}

\* The star patterns, in the order of the code.
StarPatterns ==
    << StarPattern(<<>>, FALSE,
                   {<<"star", w>> : w \in MinWords}
                       \cup {<<"star", "or", w>> : w \in MinWords}, FALSE),
       StarPattern(<<"at", "least">>, FALSE, {<<"star">>}, FALSE),
       StarPattern(<<"minimum">>, FALSE, {<<"star">>}, FALSE),
       StarPattern(<<>>, TRUE, {<<"+", "star">>}, FALSE),
       StarPattern(<<"only">>, FALSE, {<<"star">>}, TRUE) >>

\* The position of the digit when the literals k.. of pre stand at i (0: not).
RECURSIVE DigitAfterPre(_, _, _, _)
DigitAfterPre(s, i, pre, k) ==
    IF k > Len(pre) THEN (IF IsDigitAt(s, i) THEN i ELSE 0)
    ELSE IF LiteralAt(s, i, pre[k])
    THEN DigitAfterPre(s, SpacesEnd(s, i + Len(pre[k])), pre, k + 1)
    ELSE 0

\* The digit captured when the pattern matches at i (-1: no match at i).
StarMatchAt(s, i, sp) ==
    LET d == DigitAfterPre(s, i, sp.pre, 1)
        e == IF sp.tight THEN d + 1 ELSE SpacesEnd(s, d + 1)
    IN  IF d # 0 /\ \E alt \in sp.post : PartsAt(s, e, Spaced(alt), 1)
        THEN DigitVal(CharAt(s, d))
        ELSE -1

\* parseInt(lower.match(pattern)[1]): the leftmost match (-1: no match).
RECURSIVE StarMatchFrom(_, _, _)
StarMatchFrom(s, i, sp) ==
    IF i > Len(s) THEN -1
    ELSE IF StarMatchAt(s, i, sp) # -1 THEN StarMatchAt(s, i, sp)
    ELSE StarMatchFrom(s, i + 1, sp)

\* "only N star" taken as a minimum alone.
ApplyStarMin(filters, sp, stars) == [filters EXCEPT !.minStars = Num(stars)]

ApplyStar(filters, sp, stars) ==
    IF sp.exact
    THEN [filters EXCEPT !.minStars = Num(stars), !.maxStars = Num(stars)]
    ELSE [filters EXCEPT !.minStars = Num(stars)]

\* The loop over the star patterns from pattern k on.
RECURSIVE ApplyStars(_, _, _)
ApplyStars(filters, lower, k) ==
    IF k > Len(StarPatterns) THEN filters
    ELSE LET stars == StarMatchFrom(lower, 1, StarPatterns[k])
         IN  ApplyStars(IF stars = -1 THEN filters
                        ELSE ApplyStar(filters, StarPatterns[k], stars),
                        lower, k + 1)

\* luxury|luxurious|high[\s-]?end|5[\s-]?star|five[\s-]?star|upscale|premium
LuxuryPatterns ==
    Lits({"luxury", "luxurious", "highend", "high end", "high-end", "5star",
          "5 star", "5-star", "fivestar", "five star", "five-star", "upscale",
          "premium"})

\* budget[\s-]?friendly|cheap|affordable|inexpensive|low[\s-]?cost
BudgetPatterns ==
    Lits({"budgetfriendly", "budget friendly", "budget-friendly", "cheap",
          "affordable", "inexpensive", "lowcost", "low cost", "low-cost"})

ApplyLuxury(filters, lower) ==
    IF TestAny(lower, LuxuryPatterns)
    THEN [filters EXCEPT
            !.preferLuxury = TRUE,
            !.minStars = IF ~Truthy(@) \/ @.v < 4 THEN Num(4) ELSE @]
    ELSE filters

\* The budget rule without its test of the minimum.
ApplyBudgetAlways(filters, lower) ==
    IF TestAny(lower, BudgetPatterns)
    THEN [filters EXCEPT !.preferBudget = TRUE, !.maxStars = Num(3)]
    ELSE filters

ApplyBudget(filters, lower) ==
    IF TestAny(lower, BudgetPatterns) /\ ~Truthy(filters.minStars)
    THEN [filters EXCEPT !.preferBudget = TRUE, !.maxStars = Num(3)]
    ELSE filters

parsePreferences(preferences) ==
    LET lower == ToLowerCase(preferences)
    IN  ApplyBudget(
            ApplyLuxury(
                ApplyStars(ApplyExclusions(NoFilters, lower, 1), lower, 1),
                lower),
            lower)

\* The name carries the excluded type (or, for hostel, one of its variations).
NameExcluded(nameLower, excludeType) ==
    \/ Includes(nameLower, excludeType)
    \/ /\ excludeType = "hostel"
       /\ \/ Includes(nameLower, "backpacker")
          \/ Includes(nameLower, "dormitory")
          \/ Includes(nameLower, "dorm")

\* An unrated hotel turned away by any star bound.
passesFiltersRatedOnly(hotel, filters) ==
    LET nameLower == ToLowerCase(hotel.name)
        typeLower == ToLowerCase(hotel.type)
    IN  /\ \A k \in 1..Len(filters.excludeTypes) :
               ~NameExcluded(nameLower, filters.excludeTypes[k])
        /\ ~(filters.excludeVacationRentals /\ Includes(typeLower, "vacation rental"))
        /\ IF hotel.hotel_class # 0
           THEN /\ ~(Truthy(filters.minStars) /\ hotel.hotel_class < filters.minStars.v)
                /\ ~(Truthy(filters.maxStars) /\ hotel.hotel_class > filters.maxStars.v)
           ELSE /\ ~filters.preferLuxury
                /\ ~Truthy(filters.minStars)
                /\ ~Truthy(filters.maxStars)

\* The name test left out.
passesFiltersAnyName(hotel, filters) ==
    LET typeLower == ToLowerCase(hotel.type)
    IN  /\ ~(filters.excludeVacationRentals /\ Includes(typeLower, "vacation rental"))
        /\ IF hotel.hotel_class # 0
           THEN /\ ~(Truthy(filters.minStars) /\ hotel.hotel_class < filters.minStars.v)
                /\ ~(Truthy(filters.maxStars) /\ hotel.hotel_class > filters.maxStars.v)
           ELSE ~filters.preferLuxury

passesFilters(hotel, filters) ==
    LET nameLower == ToLowerCase(hotel.name)
        typeLower == ToLowerCase(hotel.type)
    IN  /\ \A k \in 1..Len(filters.excludeTypes) :
               ~NameExcluded(nameLower, filters.excludeTypes[k])
        /\ ~(filters.excludeVacationRentals /\ Includes(typeLower, "vacation rental"))
        /\ IF hotel.hotel_class # 0
           THEN /\ ~(Truthy(filters.minStars) /\ hotel.hotel_class < filters.minStars.v)
                /\ ~(Truthy(filters.maxStars) /\ hotel.hotel_class > filters.maxStars.v)
           ELSE ~filters.preferLuxury

\* A number field read through `|| 0`.
OrZero(f) == IF FieldTruthy(f) THEN f.n ELSE 0

NoHotel == [made |-> FALSE]

Hotel(name, type, class, price, kind, at) ==
    [made |-> TRUE, name |-> name, type |-> type, hotel_class |-> class,
     price |-> price, from |-> kind, at |-> at]

\* extractHotelInfo for the property at place k of data.properties.
extractHotelInfo(property, k) ==
    IF property.name = "" THEN NoHotel
    ELSE Hotel(property.name,
               IF property.type # "" THEN property.type ELSE "hotel",
               OrZero(property.extracted_hotel_class),
               IF property.rate_per_night.present
               THEN (IF FieldTruthy(property.rate_per_night.extracted_lowest)
                     THEN property.rate_per_night.extracted_lowest.n
                     ELSE OrZero(property.rate_per_night.extracted_before_taxes_fees))
               ELSE 0,
               "property", k)

\* extractHotelFromAd for the ad at place k of data.ads.
extractHotelFromAd(ad, k) ==
    IF ad.name = "" THEN NoHotel
    ELSE Hotel(ad.name, "hotel", OrZero(ad.hotel_class),
               OrZero(ad.extracted_price), "ad", k)

MaxAdsUsed == 3

MaxHotels == 10

\* The hotels made of the items from k on that pass the filters.
RECURSIVE Passing(_, _, _, _)
Passing(items, k, filters, kind) ==
    IF k > Len(items) THEN <<>>
    ELSE LET hotel == IF kind = "ad" THEN extractHotelFromAd(items[k], k)
                      ELSE extractHotelInfo(items[k], k)
         IN  (IF hotel.made /\ passesFilters(hotel, filters) THEN <<hotel>> ELSE <<>>)
                 \o Passing(items, k + 1, filters, kind)

\* .filter((h) => h.price > 0) left out.
PositivePriceOrNot(hotels) == hotels

\* .filter((h) => h.price > 0)
RECURSIVE PositivePrice(_)
PositivePrice(hotels) ==
    IF hotels = <<>> THEN <<>>
    ELSE (IF hotels[1].price > 0 THEN <<hotels[1]>> ELSE <<>>)
             \o PositivePrice(Tail(hotels))

\* x put into the list sorted by price: behind every hotel not dearer.
RECURSIVE InsertHotel(_, _)
InsertHotel(sorted, x) ==
    IF sorted = <<>> THEN <<x>>
    ELSE LET last == sorted[Len(sorted)]
         IN  IF last.price - x.price > 0
             THEN Append(InsertHotel(SubSeq(sorted, 1, Len(sorted) - 1), x), last)
             ELSE Append(sorted, x)

\* .sort((a, b) => a.price - b.price)
RECURSIVE SortHotels(_)
SortHotels(hotels) ==
    IF hotels = <<>> THEN <<>>
    ELSE InsertHotel(SortHotels(SubSeq(hotels, 1, Len(hotels) - 1)),
                     hotels[Len(hotels)])

processHotels(data, filters) ==
    LET fromProperties ==
            IF data.properties.present
            THEN Passing(data.properties.items, 1, filters, "property")
            ELSE <<>>
        fromAds ==
            IF data.ads.present
            THEN Passing(Slice(data.ads.items, MaxAdsUsed), 1, filters, "ad")
            ELSE <<>>
    IN  Slice(SortHotels(PositivePrice(fromProperties \o fromAds)), MaxHotels)

(***************************************************************************)
(* The hotel filter on its own.  Short listings range over every property  *)
(* kind and every preference; long listings hold MaxListings properties    *)
(* of a few kinds, varied inside a window, beside four ads.                *)
(***************************************************************************)
Rate(lowest, before) ==
    [present |-> TRUE, extracted_lowest |-> lowest,
     extracted_before_taxes_fees |-> before]

NoRate ==
    [present |-> FALSE, extracted_lowest |-> Undef,
     extracted_before_taxes_fees |-> Undef]

Property(name, type, class, rate) ==
    [name |-> name, type |-> type, extracted_hotel_class |-> class,
     rate_per_night |-> rate]

Ad(name, class, price) ==
    [name |-> name, hotel_class |-> class, extracted_price |-> price]

PropertyKinds ==
    {Property("Downtown Hostel", "", NumField(4), Rate(NumField(90), Undef)),
     Property("City Backpackers Inn", "", Undef, Rate(NumField(30), Undef)),
     Property("Budget Dorm Rooms", "", NumField(3), Rate(NumField(40), Undef)),
     Property("Sunny Motel", "", NumField(2), Rate(NumField(60), Undef)),
     Property("Hotel One", "", NumField(1), Rate(NumField(50), Undef)),
     Property("Grand Hotel", "", NumField(5), Rate(NumField(300), Undef)),
     Property("Central Hotel", "", NumField(3), Rate(Undef, NumField(120))),
     Property("Beach House", "Vacation rental", Undef, Rate(NumField(150), Undef)),
     Property("Park Hotel", "", NumField(4), Rate(NumField(0), Undef)),
     Property("Station Hotel", "", NumField(3), NoRate),
     Property("Old Town Guesthouse", "", Undef, Rate(NumField(65), Undef)),
     Property("", "", NumField(4), Rate(NumField(70), Undef))}

AdKinds ==
    {Ad("Airport Hostel", NumField(4), NumField(45)),
     Ad("Plaza Hotel", NumField(3), NumField(55)),
     Ad("Palace Hotel", NumField(5), Undef)}

Preferences ==
    {"", "no hostels, 4 star minimum", "No Backpackers", "avoid hostels and don't want motels",
     "only 1 star", "only 2 star", "only 3 star", "only 4 star", "only 5 star",
     "luxury", "budget friendly", "hotels only, at least 3 star", "no cheap places",
     "0 star or above, cheap", "cheap, at least 3 star",
     "affordable luxury, at least 5 star", "at least 3 star, luxury",
     "at least 3 star, only 4 star", "only 3 star, premium",
     "luxury but affordable"}

SomePreferences == {"", "no hostels, 4 star minimum", "only 3 star"}

LongPropertyKinds ==
    {Property("Grand Hotel", "", NumField(4), Rate(NumField(100), Undef)),
     Property("Central Hotel", "", NumField(3), Rate(NumField(80), Undef)),
     Property("Station Hotel", "", NumField(4), NoRate)}

FourAds ==
    <<Ad("Plaza Hotel", NumField(3), NumField(55)),
      Ad("Palace Hotel", NumField(5), Undef),
      Ad("Airport Hostel", NumField(4), NumField(45)),
      Ad("Harbour Hotel", NumField(4), NumField(35))>>

HotelsInit ==
    /\ \/ \E kind \in PropertyKinds :
              /\ hPrefs \in Preferences
              /\ hData = [properties |-> Collection(<<kind>>), ads |-> Absent]
       \/ \E n \in 0..MaxProps : \E f \in [1..n -> PropertyKinds] :
              /\ hPrefs \in SomePreferences
              /\ hData = [properties |-> Collection(f), ads |-> Absent]
       \/ \E ads \in {Absent} \cup {Collection(<<a>>) : a \in AdKinds} :
              /\ hPrefs \in Preferences
              /\ hData = [properties |-> Absent, ads |-> ads]
       \/ \E fill \in LongPropertyKinds, start \in 0..(MaxListings - MaxVariedListings) :
          \E g \in [1..MaxVariedListings -> LongPropertyKinds] :
              /\ hPrefs \in {"", "only 4 star"}
              /\ hData = [properties |->
                              Collection([k \in 1..MaxListings |->
                                  IF k > start /\ k <= start + MaxVariedListings
                                  THEN g[k - start] ELSE fill]),
                          ads |-> Collection(FourAds)]
    /\ hPc = "call"
    /\ hFilters = NoFilters
    /\ hOut = <<>>
    /\ PriceIdle
    /\ EstimateIdle
    /\ FlightsIdle
    /\ RouteIdle
    /\ ValidationIdle
    /\ ChatIdle
    /\ PageIdle
    /\ PlacesIdle

\* POST after the provider answered: parsePreferences, then processHotels.
CallProcessHotels ==
    /\ hPc = "call"
    /\ LET filters == parsePreferences(hPrefs)
       IN  /\ hFilters' = filters
           /\ hOut' = processHotels(hData, filters)
    /\ hPc' = "done"
    /\ UNCHANGED <<hPrefs, hData, priceVars, estVars, flVars, routeVars, valVars, chatVars, pageVars, placesVars>>

HotelsNext == CallProcessHotels

SpecHotels == HotelsInit /\ [][HotelsNext]_vars

(***************************************************************************)
(* Claims about the hotel filter.                                          *)
(***************************************************************************)
HostelWords == {"hostel", "backpacker", "dorm", "dormitory"}

\* The preferences generated that exclude hostels, and those that exclude
\* motels.
NoHostelPreferences ==
    {"no hostels, 4 star minimum", "No Backpackers",
     "avoid hostels and don't want motels"}

NoMotelPreferences == {"avoid hostels and don't want motels"}

ReturnedNames == {ToLowerCase(hOut[k].name) : k \in 1..Len(hOut)}

\* C14: no hotel returned has a name containing an excluded type keyword
\* (for hostels also backpacker, dorm, dormitory), whatever its star
\* class, type and price; "no hostels, 4 star minimum" excludes hostels
\* and does not return "Downtown Hostel" of class 4.
C14_NameExclusion ==
    hPc = "done" =>
        /\ \A k \in 1..Len(hFilters.excludeTypes) :
               \A name \in ReturnedNames :
                   /\ ~Includes(name, hFilters.excludeTypes[k])
                   /\ hFilters.excludeTypes[k] = "hostel" =>
                          \A w \in HostelWords : ~Includes(name, w)
        /\ hPrefs \in NoHostelPreferences =>
               \A name \in ReturnedNames : \A w \in HostelWords : ~Includes(name, w)
        /\ hPrefs \in NoMotelPreferences =>
               \A name \in ReturnedNames : ~Includes(name, "motel")
        /\ hPrefs = "no hostels, 4 star minimum" =>
               /\ hFilters.minStars = Num(4)
               /\ "downtown hostel" \notin ReturnedNames

C14_Witness ==
    /\ hPc = "done"
    /\ hPrefs = "no hostels, 4 star minimum"
    /\ hData.properties.present
    /\ \E k \in 1..Len(hData.properties.items) :
           /\ hData.properties.items[k].name = "Downtown Hostel"
           /\ hData.properties.items[k].extracted_hotel_class = NumField(4)
    /\ Len(hOut) = 1
    /\ hOut[1].name = "Grand Hotel"

\* The per-night price of a property: extracted_lowest, else
\* extracted_before_taxes_fees, else 0.
PerNight(property) ==
    IF ~property.rate_per_night.present THEN 0
    ELSE IF FieldTruthy(property.rate_per_night.extracted_lowest)
    THEN property.rate_per_night.extracted_lowest.n
    ELSE IF FieldTruthy(property.rate_per_night.extracted_before_taxes_fees)
    THEN property.rate_per_night.extracted_before_taxes_fees.n
    ELSE 0

OnlyStars == [p \in {"only 1 star", "only 2 star", "only 3 star", "only 4 star",
                     "only 5 star"} |->
                 CASE p = "only 1 star" -> 1 [] p = "only 2 star" -> 2
                   [] p = "only 3 star" -> 3 [] p = "only 4 star" -> 4
                   [] p = "only 5 star" -> 5]

\* The property at place k of the listing is among the hotels returned.
IsReturned(k) ==
    \E j \in 1..Len(hOut) : hOut[j].from = "property" /\ hOut[j].at = k

\* C15: with the preference "only N star" minStars and maxStars are both
\* N, and a named, priced property of known star class is returned if and
\* only if its class is N (as long as the listing fits the result cap).
C15_OnlyNStar ==
    (hPc = "done" /\ hPrefs \in DOMAIN OnlyStars) =>
        LET n == OnlyStars[hPrefs]
            items == hData.properties.items
        IN  /\ hFilters.minStars = Num(n)
            /\ hFilters.maxStars = Num(n)
            /\ \A k \in 1..Len(items) :
                   (/\ items[k].name # ""
                    /\ FieldTruthy(items[k].extracted_hotel_class)
                    /\ PerNight(items[k]) > 0) =>
                       /\ IsReturned(k) => items[k].extracted_hotel_class.n = n
                       /\ (/\ items[k].extracted_hotel_class.n = n
                           /\ Len(items) + Len(hData.ads.items) <= MaxHotels) =>
                              IsReturned(k)

C15_Witness ==
    /\ hPc = "done"
    /\ hPrefs = "only 3 star"
    /\ Len(hData.properties.items) = 2
    /\ hData.properties.items[1].extracted_hotel_class = NumField(5)
    /\ PerNight(hData.properties.items[1]) > 0
    /\ hData.properties.items[2].extracted_hotel_class = NumField(3)
    /\ ~IsReturned(1)
    /\ IsReturned(2)

\* C16: every hotel returned has a price above 0, the hotels returned are
\* in ascending order of per-night price and at most 10; so a property or
\* an ad whose price resolves to 0 is not returned.
C16_PricedSortedCapped ==
    hPc = "done" =>
        /\ Len(hOut) <= 10
        /\ \A k \in 1..Len(hOut) : hOut[k].price > 0
        /\ \A j, k \in 1..Len(hOut) : j < k => hOut[j].price <= hOut[k].price
        /\ \A k \in 1..Len(hOut) :
               IF hOut[k].from = "property"
               THEN hOut[k].price = PerNight(hData.properties.items[hOut[k].at])
               ELSE hData.ads.items[hOut[k].at].extracted_price = NumField(hOut[k].price)

C16_Witness ==
    /\ hPc = "done"
    /\ hPrefs = ""
    /\ Len(hOut) = 10
    /\ Len(hData.properties.items) > 10
    /\ \E k \in 1..Len(hData.properties.items) :
           PerNight(hData.properties.items[k]) = 0
    /\ \E k \in 1..Len(hData.ads.items) :
           hData.ads.items[k].extracted_price = Undef
    /\ hOut[1].from = "ad"
    /\ hOut[3].from = "property"
    /\ hOut[3].price < hOut[10].price

\* The preference names luxury, and it names budget.
LuxuryIntent == TestAny(ToLowerCase(hPrefs), LuxuryPatterns)

BudgetIntent == TestAny(ToLowerCase(hPrefs), BudgetPatterns)

\* The filters as the exclusion and star-bound rules leave them.
AfterStarRules ==
    LET lower == ToLowerCase(hPrefs)
    IN  ApplyStars(ApplyExclusions(NoFilters, lower, 1), lower, 1)

PlainUnrated(property) ==
    /\ property.name # ""
    /\ ~FieldTruthy(property.extracted_hotel_class)
    /\ PerNight(property) > 0
    /\ \A w \in HostelWords \cup {"motel"} : ~Includes(ToLowerCase(property.name), w)
    /\ ~Includes(ToLowerCase(property.type), "vacation rental")

\* C24: a listing without star class is turned away by the star check
\* only under luxury intent; under star bounds without a luxury keyword,
\* under budget intent and without preference it is returned.
C24_UnratedOnlyLuxury ==
    hPc = "done" =>
        \A k \in 1..Len(hData.properties.items) :
            (/\ PlainUnrated(hData.properties.items[k])
             /\ Len(hData.properties.items) + Len(hData.ads.items) <= MaxHotels) =>
                (IsReturned(k) <=> ~LuxuryIntent)

\* An unrated listing returned under "only 4 star".
C24_Witness ==
    /\ hPc = "done"
    /\ hPrefs = "only 4 star"
    /\ hFilters.minStars = Num(4)
    /\ hFilters.maxStars = Num(4)
    /\ Len(hData.properties.items) = 1
    /\ PlainUnrated(hData.properties.items[1])
    /\ IsReturned(1)

\* The star-bound rules that match the preference.
MatchingStarRules ==
    {k \in 1..Len(StarPatterns) :
        StarMatchFrom(ToLowerCase(hPrefs), 1, StarPatterns[k]) # -1}

\* C25: when the preference matches more than one star-bound rule, the
\* first matching rule in rule order determines minStars and maxStars
\* (here without luxury or budget words, which come later).
C25_FirstStarRuleWins ==
    (/\ hPc = "done"
     /\ Cardinality(MatchingStarRules) > 1
     /\ ~LuxuryIntent
     /\ ~BudgetIntent) =>
        LET first == CHOOSE k \in MatchingStarRules :
                         \A j \in MatchingStarRules : k <= j
            stars == StarMatchFrom(ToLowerCase(hPrefs), 1, StarPatterns[first])
        IN  /\ hFilters.minStars = Num(stars)
            /\ hFilters.maxStars =
                   (IF StarPatterns[first].exact THEN Num(stars) ELSE Null)

\* C26: whenever minStars and maxStars are both set, minStars <= maxStars,
\* so that some star class passes the filter.
C26_StarRangeNotEmpty ==
    (hPc = "done" /\ Truthy(hFilters.minStars) /\ Truthy(hFilters.maxStars)) =>
        hFilters.minStars.v <= hFilters.maxStars.v

(***************************************************************************)
(* Request validation of the search routes: the body is parsed against     *)
(* the route's schema before the provider is called.  A body is a function *)
(* from field names to raw JSON values.                                    *)
(***************************************************************************)
ListField == [t |-> "list", n |-> 0, s |-> ""]

\* A field of a schema; none is the absent default.
Field(name, kind, min, max, default, optional) ==
    [name |-> name, kind |-> kind, min |-> min, max |-> max,
     default |-> default, optional |-> optional]

Text(name, min) == Field(name, "string", min, 0, Undef, FALSE)

Date(name) == Field(name, "date", 0, 0, Undef, FALSE)

Count(name, min, max, default) == Field(name, "number", min, max, default, FALSE)

Code(name, default) == Field(name, "code", 0, 0, default, FALSE)

Routes == {"hotels", "cityHotels", "flights", "activityPrices"}

Schema(route) ==
    CASE route = "hotels" ->
           <<Text("destination", 1), Date("check_in_date"), Date("check_out_date"),
             Count("adults", 1, 10, NumField(2)),
             Count("children", 0, 10, NumField(0)),
             Code("currency", StrField("USD")),
             Field("preferences", "string", 0, 0, Undef, TRUE)>>
      [] route = "cityHotels" ->
           <<Text("city_id", 0), Date("checkin_date"), Date("checkout_date"),
             Count("number_of_rooms", 1, 10, Undef),
             Count("number_of_adults", 1, 20, Undef),
             Count("number_of_children", 0, 10, Undef),
             Code("currency", Undef)>>
      [] route = "flights" ->
           <<Code("departure_airport_code", Undef),
             Code("arrival_airport_code", Undef),
             Date("departure_date"), Date("arrival_date"),
             Count("number_of_adults", 1, 9, Undef),
             Count("number_of_children", 0, 9, Undef),
             Count("number_of_infants", 0, 9, Undef),
             Field("cabin_class", "cabin", 0, 0, Undef, FALSE),
             Code("currency", Undef)>>
      [] route = "activityPrices" ->
           <<Text("destination", 1),
             Field("activities", "list", 0, 0, Undef, FALSE),
             Field("date", "string", 0, 0, Undef, TRUE)>>

\* /^\d{4}-\d{2}-\d{2}$/
DateShape(s) ==
    /\ Len(s) = 10
    /\ \A i \in {1, 2, 3, 4, 6, 7, 9, 10} : IsDigitAt(s, i)
    /\ CharAt(s, 5) = "-"
    /\ CharAt(s, 8) = "-"

CabinClasses == {"Economy", "Business", "First", "Premium_Economy"}

\* The value passes the field's type and shape tests.
ValueOk(f, v) ==
    CASE f.kind = "string" -> v.t = "str" /\ Len(v.s) >= f.min
      [] f.kind = "date" -> v.t = "str" /\ DateShape(v.s)
      [] f.kind = "number" -> v.t = "num" /\ v.n >= f.min /\ v.n <= f.max
      [] f.kind = "code" -> v.t = "str" /\ Len(v.s) = 3
      [] f.kind = "cabin" -> v.t = "str" /\ v.s \in CabinClasses
      [] f.kind = "list" -> v.t = "list"

\* zod on one field: an undefined value takes the default or passes as
\* optional; any other value is tested as it is.
FieldOk(f, v) ==
    IF v = Undef THEN (f.default # Undef \/ f.optional) ELSE ValueOk(f, v)

ParsedField(f, v) == IF v = Undef THEN f.default ELSE v

FieldNames(route) == {Schema(route)[k].name : k \in 1..Len(Schema(route))}

FieldOf(route, name) ==
    Schema(route)[CHOOSE k \in 1..Len(Schema(route)) : Schema(route)[k].name = name]

\* Schema.parse(body) succeeds.
ParseOk(route, body) ==
    /\ body.object
    /\ \A name \in FieldNames(route) :
           FieldOk(FieldOf(route, name), body.fields[name])

\* The value Schema.parse(body) returns.
Parsed(route, body) ==
    [name \in FieldNames(route) |->
        ParsedField(FieldOf(route, name), body.fields[name])]

\* The status the catch block answers a ZodError with: every route tests
\* `e instanceof z.ZodError` but the city hotel route, which answers 500.
ZodStatus(route) == IF route = "cityHotels" THEN 500 ELSE 400

\* A body every schema field of which is valid.
GoodValue(f) ==
    CASE f.kind = "string" -> StrField("Paris")
      [] f.kind = "date" -> StrField("2025-06-01")
      [] f.kind = "number" -> NumField(1)
      [] f.kind = "code" -> StrField("USD")
      [] f.kind = "cabin" -> StrField("Economy")
      [] f.kind = "list" -> ListField

GoodBody(route) ==
    [object |-> TRUE,
     fields |-> [name \in FieldNames(route) |-> GoodValue(FieldOf(route, name))]]

RawValues ==
    {Undef, ListField, NumField(0), NumField(2), NumField(11), NumField(21),
     StrField(""), StrField("2"), StrField("Paris"), StrField("USD"),
     StrField("2025-06-01"), StrField("06/01/2025"), StrField("Economy")}

\* A request: a body that is no object, or a good body with one field
\* replaced by any raw value.
ValidationInit ==
    /\ vRoute \in Routes
    /\ \/ vBody = [object |-> FALSE, fields |-> [name \in FieldNames(vRoute) |-> Undef]]
       \/ \E name \in FieldNames(vRoute), v \in RawValues :
              vBody = [GoodBody(vRoute) EXCEPT !.fields[name] = v]
    /\ vPc = "parse"
    /\ vStatus = 0
    /\ vCalled = FALSE
    /\ vParams = NoParams
    /\ PriceIdle
    /\ EstimateIdle
    /\ FlightsIdle
    /\ RouteIdle
    /\ HotelsIdle
    /\ ChatIdle
    /\ PageIdle
    /\ PlacesIdle

\* parse succeeds: the provider is called with the parsed parameters.
ParseAccepts ==
    /\ vPc = "parse"
    /\ ParseOk(vRoute, vBody)
    /\ vParams' = Parsed(vRoute, vBody)
    /\ vCalled' = TRUE
    /\ vPc' = "provider"
    /\ UNCHANGED <<vRoute, vBody, vStatus, priceVars, estVars, flVars, routeVars, hotelVars, chatVars, pageVars, placesVars>>

\* parse throws a ZodError: the catch block answers.
ParseRejects ==
    /\ vPc = "parse"
    /\ ~ParseOk(vRoute, vBody)
    /\ vStatus' = ZodStatus(vRoute)
    /\ vPc' = "done"
    /\ UNCHANGED <<vRoute, vBody, vCalled, vParams, priceVars, estVars, flVars, routeVars, hotelVars, chatVars, pageVars, placesVars>>

\* The provider answers not-ok: its status is passed on (the activity
\* price route goes on to its estimate and answers with success).
ProviderFails ==
    /\ vPc = "provider"
    /\ \E status \in {429, 503} :
           vStatus' = IF vRoute = "activityPrices" THEN 200 ELSE status
    /\ vPc' = "done"
    /\ UNCHANGED <<vRoute, vBody, vCalled, vParams, priceVars, estVars, flVars, routeVars, hotelVars, chatVars, pageVars, placesVars>>

ProviderAnswers ==
    /\ vPc = "provider"
    /\ vStatus' = 200
    /\ vPc' = "done"
    /\ UNCHANGED <<vRoute, vBody, vCalled, vParams, priceVars, estVars, flVars, routeVars, hotelVars, chatVars, pageVars, placesVars>>

ValidationNext ==
    \/ ParseAccepts
    \/ ParseRejects
    \/ ProviderFails
    \/ ProviderAnswers

SpecValidation == ValidationInit /\ [][ValidationNext]_vars

\* The body fails the shape validation: it is no object, a field without
\* default is missing, or a field has a wrong type or shape.
FailsValidation ==
    \/ ~vBody.object
    \/ \E name \in FieldNames(vRoute) :
           LET f == FieldOf(vRoute, name)
               v == vBody.fields[name]
           IN  \/ v = Undef /\ ~f.optional /\ f.default = Undef
               \/ v # Undef /\ ~ValueOk(f, v)

\* C17: a request failing the shape validation is answered with a client
\* error and the provider is never called for it; and the parameters a
\* provider is called with are the caller's own, none substituted for a
\* missing field.
C17_InvalidRejectedUncoerced ==
    /\ (vPc = "done" /\ FailsValidation) =>
           /\ vStatus >= 400
           /\ vStatus < 500
           /\ ~vCalled
    /\ vCalled => \A name \in FieldNames(vRoute) : vParams[name] = vBody.fields[name]

(***************************************************************************)
(* Claims about processFlightData.                                         *)
(***************************************************************************)
\* An itinerary has a discoverable price: a non-zero amount on
\* cheapest_price or on the first pricing option.
Priced(it) == FieldTruthy(it.cheapest) \/ FieldTruthy(it.option)

\* The resolved price: cheapest_price amount, else first option's amount.
Resolved(it) == IF FieldTruthy(it.cheapest) THEN it.cheapest.n ELSE it.option.n

\* Itinerary a is at most as expensive as b; no price is dearest.
AtMost(a, b) == ~Priced(b) \/ (Priced(a) /\ Resolved(a) <= Resolved(b))

ReturnedIds == {flOut[k].id : k \in 1..Len(flOut)}

\* C9: processFlightData returns at most 10 flights for every input, and
\* when the input holds more than 10 itineraries the flights returned are
\* the 10 itineraries with the lowest resolved price.
C9_TenCheapest ==
    flPc = "done" =>
        LET its == flData.itineraries
        IN  /\ Len(flOut) <= 10
            /\ Len(its) > 10 =>
                  /\ Len(flOut) = 10
                  /\ Cardinality(ReturnedIds) = 10
                  /\ ReturnedIds \subseteq 1..Len(its)
                  /\ \A k \in 1..Len(flOut) :
                         flOut[k].price = CheapestPrice(its[flOut[k].id])
                  /\ \A a \in ReturnedIds, b \in (1..Len(its)) \ ReturnedIds :
                         AtMost(its[a], its[b])

\* Eleven itineraries, the cheapest of them last in the provider's array,
\* have been cut to ten.
C9_Witness ==
    /\ flPc = "done"
    /\ Len(flData.itineraries) = 11
    /\ Len(flOut) = 10
    /\ 11 \in ReturnedIds
    /\ 1 \notin ReturnedIds

\* C10 as stated: the price fields of consecutive returned flights are
\* non-decreasing, and an itinerary with no discoverable price is placed
\* after every priced itinerary.
C10_PriceFieldsNonDecreasing ==
    flPc = "done" =>
        /\ \A k \in 1..(Len(flOut) - 1) : flOut[k].price <= flOut[k + 1].price
        /\ \A j, k \in 1..Len(flOut) :
               (Priced(flData.itineraries[flOut[j].id])
                    /\ ~Priced(flData.itineraries[flOut[k].id])) => j < k

\* C10 (amended): the returned flights are ordered cheapest first by
\* resolved price: the price fields of the returned flights that have a
\* discoverable price are non-decreasing, and an itinerary with no
\* discoverable price, returned with price field 0, is placed after every
\* priced itinerary.
C10_CheapestFirst ==
    flPc = "done" =>
        LET its == flData.itineraries
        IN  \A j, k \in 1..Len(flOut) :
                /\ (j < k /\ Priced(its[flOut[j].id]) /\ Priced(its[flOut[k].id]))
                       => flOut[j].price <= flOut[k].price
                /\ (Priced(its[flOut[j].id]) /\ ~Priced(its[flOut[k].id]))
                       => j < k
                /\ ~Priced(its[flOut[k].id]) => flOut[k].price = 0

\* Two unpriced itineraries and two priced ones that the provider sent out
\* of order have been sorted.
C10_Witness ==
    /\ flPc = "done"
    /\ Len(flOut) >= 4
    /\ \E j, k \in 1..Len(flOut) :
           /\ j < k
           /\ ~Priced(flData.itineraries[flOut[j].id])
           /\ ~Priced(flData.itineraries[flOut[k].id])
    /\ \E j, k \in 1..Len(flOut) :
           /\ j < k
           /\ flOut[j].id > flOut[k].id
           /\ 0 < flOut[j].price
           /\ flOut[j].price < flOut[k].price

\* Two itineraries have equal resolved price: the same amount, or no
\* discoverable price on either.
SamePrice(a, b) ==
    \/ ~Priced(a) /\ ~Priced(b)
    \/ Priced(a) /\ Priced(b) /\ Resolved(a) = Resolved(b)

\* C11: two itineraries of equal resolved price that are both returned
\* keep, in the flights returned, the order they have in the provider's
\* itineraries array.
C11_OrderStable ==
    flPc = "done" =>
        \A j, k \in 1..Len(flOut) :
            (/\ j < k
             /\ SamePrice(flData.itineraries[flOut[j].id],
                          flData.itineraries[flOut[k].id])) =>
                flOut[j].id < flOut[k].id

C11_Witness ==
    /\ flPc = "done"
    /\ \E j, k, m \in 1..Len(flOut) :
           /\ j < k
           /\ flOut[j].price = flOut[k].price
           /\ flOut[j].price > 0
           /\ flOut[j].id < flOut[k].id
           /\ flOut[m].id < flOut[j].id
           /\ m > k

\* The collection holds a record under the id: the id is a string and some
\* record's id has that text.
Known(collection, id) ==
    /\ ~id.num
    /\ \E k \in 1..Len(collection.items) : collection.items[k].id.s = id.s

\* The provider's record of that id.
RecordOf(collection, id) ==
    LET k == CHOOSE k \in 1..Len(collection.items) : collection.items[k].id.s = id.s
    IN  collection.items[k]

\* The segment ids of a leg that the segments collection resolves.
KnownSegmentIds(data, leg) ==
    {k \in 1..Len(leg.segment_ids) : Known(data.segments, leg.segment_ids[k])}

\* The returned leg answers the leg id as C12 requires.
LegDegrades(data, id, out) ==
    IF ~Known(data.legs, id)
    THEN out = PlaceholderLeg
    ELSE LET leg == RecordOf(data.legs, id)
         IN  /\ out.departure = leg.departure
             /\ out.arrival = leg.arrival
             /\ Len(out.segments) = Cardinality(KnownSegmentIds(data, leg))
             /\ \A k \in 1..Len(out.segments) :
                    /\ out.segments[k].resolved
                    /\ out.segments[k].from # ""
                    /\ out.segments[k].to # ""

\* C12: whatever leg, segment, place or carrier references are missing
\* from the provider collections, and whichever collections are absent,
\* one flight is returned for every itinerary retained; a leg id that
\* resolves to no leg gives the placeholder leg with empty segments, and a
\* leg that resolves carries exactly its resolvable segments.
C12_MissingReferencesDegrade ==
    flPc = "done" =>
        /\ Len(flOut) = Len(flData.itineraries)
        /\ \A k \in 1..Len(flOut) :
               LET it == flData.itineraries[flOut[k].id]
               IN  /\ LegDegrades(flData, IdAt(it.leg_ids, 1), flOut[k].outbound)
                   /\ LegDegrades(flData, IdAt(it.leg_ids, 2), flOut[k].return)

C12_Witness ==
    /\ flPc = "done"
    /\ ~flData.places.present
    /\ \E k \in 1..Len(flOut) :
           LET it == flData.itineraries[flOut[k].id]
           IN  /\ Len(it.leg_ids) = 2
               /\ flOut[k].return = PlaceholderLeg
               /\ Len(flOut[k].outbound.segments) = 2
               /\ flOut[k].outbound.segments[1].from = "p1"

\* segment[i].to = segment[i+1].from along the leg.
Contiguous(segs) ==
    \A k \in 1..(Len(segs) - 1) : segs[k].to = segs[k + 1].from

\* The returned leg answers the leg id as C13 requires.
LegContiguousOrEmpty(data, id, out) ==
    Known(data.legs, id) =>
        LET leg == RecordOf(data.legs, id)
        IN  /\ Contiguous(out.segments)
            /\ Cardinality(KnownSegmentIds(data, leg)) < Len(leg.segment_ids) =>
                   /\ out.segments = <<>>
                   /\ out.departure = leg.departure
                   /\ out.arrival = leg.arrival
                   /\ out.duration = leg.duration

\* C13: the segments of every returned leg are contiguous, and a leg with
\* an unresolved segment reference is returned with empty segments and
\* the departure, arrival and duration of the leg record.
C13_ContiguousOrEmpty ==
    flPc = "done" =>
        \A k \in 1..Len(flOut) :
            LET it == flData.itineraries[flOut[k].id]
            IN  /\ LegContiguousOrEmpty(flData, IdAt(it.leg_ids, 1), flOut[k].outbound)
                /\ LegContiguousOrEmpty(flData, IdAt(it.leg_ids, 2), flOut[k].return)

\* The segment ids of a leg that the segments collection resolves, in the
\* order of the leg.
KnownSegmentsOf(data, leg) ==
    SelectSeq(leg.segment_ids, LAMBDA id : Known(data.segments, id))

\* The places collection holds a record whose id equals the id.
PlaceHeld(places, id) ==
    \E k \in 1..Len(places.items) : places.items[k].id = id

PlaceHolding(places, id) ==
    LET k == CHOOSE k \in 1..Len(places.items) : places.items[k].id = id
    IN  places.items[k]

\* The text C22 requires for a place id.
PlaceAsClaimed(places, id, text) ==
    IF ~PlaceHeld(places, id) THEN text = id.s
    ELSE LET p == PlaceHolding(places, id)
         IN  /\ p.iata # "" => text = p.iata
             /\ (p.iata = "" /\ p.name # "") => text = p.name

\* The segments of the returned leg name their places as C22 requires.
LegPlacesResolved(data, id, out) ==
    Known(data.legs, id) =>
        LET ids == KnownSegmentsOf(data, RecordOf(data.legs, id))
        IN  \A k \in 1..Len(out.segments) :
                k <= Len(ids) =>
                    LET seg == RecordOf(data.segments, ids[k])
                    IN  /\ PlaceAsClaimed(data.places, seg.origin_place_id,
                                          out.segments[k].from)
                        /\ PlaceAsClaimed(data.places, seg.destination_place_id,
                                          out.segments[k].to)

\* C22: every returned segment names its origin and its destination by
\* the IATA code of the place record whose id equals the segment's place
\* id, else by that record's name, and by the id as text only when the
\* places collection holds no such record, for string and number ids.
C22_PlaceCodesResolved ==
    flPc = "done" =>
        \A k \in 1..Len(flOut) :
            LET it == flData.itineraries[flOut[k].id]
            IN  /\ LegPlacesResolved(flData, IdAt(it.leg_ids, 1), flOut[k].outbound)
                /\ LegPlacesResolved(flData, IdAt(it.leg_ids, 2), flOut[k].return)

(***************************************************************************)
(* Claims about estimateActivityPrice.                                     *)
(***************************************************************************)
\* The text w occurs in s.
Occurs(s, w) ==
    \E i \in 1..(Len(s) - Len(w) + 1) : SubSeq(s, i, i + Len(w) - 1) = w

FreeActivityWords ==
    {"walk", "stroll", "wander", "explore the streets",
     "explore the neighborhood", "explore the area", "explore streets",
     "explore neighborhood", "explore area", "park", "garden", "beach",
     "sunset", "sunrise", "window shop"}

NamesFreeActivity(l) ==
    \E w \in FreeActivityWords : Occurs(ToLowerCase(l), w)

\* C6: for every label that matches a free-activity pattern,
\* estimateActivityPrice returns 0 and never null, whatever other category
\* keywords the label contains.
C6_FreeActivityIsZero ==
    (estPc = "done" /\ NamesFreeActivity(label)) => estOut = Num(0)

\* A label naming a free activity and a museum has been estimated at 0.
C6_Witness ==
    /\ estPc = "done"
    /\ NamesFreeActivity(label)
    /\ Occurs(ToLowerCase(label), "museum")
    /\ estOut = Num(0)

\* A label of pure shopping: it matches shop, shopping, market or mall and
\* no keyword of any other category.
PureShopping(l) ==
    LET lower == ToLowerCase(l)
    IN  /\ \E w \in {"shop", "shopping", "market", "mall"} : Occurs(lower, w)
        /\ \A k \in 1..Len(EstimateRules) :
               ~TestAny(lower, EstimateRules[k].alts \ ShoppingPatterns)

\* C7: for every label that matches a pure-shopping pattern (shop,
\* shopping, market, mall), for example "local market shopping",
\* estimateActivityPrice returns null and never 0.
C7_ShoppingIsNull ==
    (estPc = "done" /\ PureShopping(label)) => estOut = Null

\* A label naming a theme park: the words theme and park, together or
\* separated by spaces.
NamesThemePark(l) ==
    \E w \in {"themepark", "theme park", "theme  park"} :
        Occurs(ToLowerCase(l), w)

ThemeParkValue == Num(10000)

\* C21: every label naming a theme park (for example "theme park visit")
\* is estimated at the theme-park value, and no label is estimated at a
\* fixed value above it.
C21_ThemeParkHighest ==
    estPc = "done" =>
        /\ NamesThemePark(label) => estOut = ThemeParkValue
        /\ Truthy(estOut) => estOut.v <= ThemeParkValue.v

(***************************************************************************)
(* The shape the price pattern describes, stated on its own: a run of      *)
(* digits, then groups of a comma and three digits, then optionally a      *)
(* point and two digits.                                                   *)
(***************************************************************************)
InPriceShape(w) ==
    \E a \in 1..Len(w), g \in 0..Len(w), fr \in {0, 3} :
        /\ Len(w) = a + 4 * g + fr
        /\ \A p \in 1..Len(w) :
              IF p <= a THEN IsDigitAt(w, p)
              ELSE IF p <= a + 4 * g
                   THEN IF (p - a - 1) % 4 = 0 THEN CharAt(w, p) = ","
                        ELSE IsDigitAt(w, p)
              ELSE IF p = a + 4 * g + 1 THEN CharAt(w, p) = "."
              ELSE IsDigitAt(w, p)

HasDigit(s) == \E p \in 1..Len(s) : IsDigitAt(s, p)

\* The first numeric substring: it starts at the first digit and runs as
\* far as the shape allows.
FirstNumeric(s) ==
    LET i == CHOOSE p \in 1..Len(s) :
                 IsDigitAt(s, p) /\ \A q \in 1..(p - 1) : ~IsDigitAt(s, q)
        ends == {e \in i..Len(s) : InPriceShape(SubSeq(s, i, e))}
        e == CHOOSE x \in ends : \A y \in ends : y <= x
    IN  SubSeq(s, i, e)

\* The digits of w before its point, commas skipped, read from the right.
RECURSIVE WholeOf(_, _)
WholeOf(w, n) ==
    IF n = 0 THEN 0
    ELSE IF CharAt(w, n) = "," THEN WholeOf(w, n - 1)
    ELSE 10 * WholeOf(w, n - 1) + DigitVal(CharAt(w, n))

\* The amount a text of the price shape denotes, in hundredths.
AmountOf(w) ==
    LET n == Len(w)
        frac == n >= 3 /\ CharAt(w, n - 2) = "."
    IN  IF frac
        THEN 100 * WholeOf(w, n - 3)
                 + 10 * DigitVal(CharAt(w, n - 1)) + DigitVal(CharAt(w, n))
        ELSE 100 * WholeOf(w, n)

\* C8: extractPrice returns a numeric input unchanged, null for an absent
\* or empty input and for a text without digits, and otherwise the amount
\* of the first numeric substring with its grouping commas removed
\* ("$1,234.56" gives 1234.56, "1234.56" gives 1234.56, "1234" gives 1234);
\* every input yields a value.
C8_ExtractPrice ==
    pricePc = "done" =>
        /\ priceStr.t = "num" => priceOut = Num(priceStr.n)
        /\ priceStr.t = "undef" => priceOut = Null
        /\ (priceStr.t = "str" /\ ~HasDigit(priceStr.s)) => priceOut = Null
        /\ (priceStr.t = "str" /\ HasDigit(priceStr.s)) =>
               priceOut = Num(AmountOf(FirstNumeric(priceStr.s)))
        /\ priceStr = StrField("$1,234.56") => priceOut = Num(123456)
        /\ priceStr = StrField("1234.56") => priceOut = Num(123456)
        /\ priceStr = StrField("1234") => priceOut = Num(123400)
        /\ priceOut = Null \/ (~priceOut.null /\ priceOut.v \in Nat)

\* A comma-grouped amount with decimals has been extracted.
C8_Witness ==
    /\ pricePc = "done"
    /\ priceStr = StrField("$1,234.56")
    /\ priceOut = Num(123456)

(***************************************************************************)
(* The flight chat page and the parse-flight route.  A field of the        *)
(* extracted data is null, undefined (the key is absent) or a value.  One  *)
(* turn is doSubmit: the page posts the prompt with its flightParams as    *)
(* previousData, the route merges the model's answer with previousData,    *)
(* and the page stores the data of the response as flightParams.           *)
(***************************************************************************)
RequiredFields ==
    {"departure_airport_code", "arrival_airport_code", "departure_date",
     "arrival_date"}

ChatFields == RequiredFields \cup {"number_of_adults"}

NoData == [set |-> FALSE, data |-> [f \in ChatFields |-> "undefined"]]

SomeData(data) == [set |-> TRUE, data |-> data]

\* What the model may answer for a field: null, nothing, or a value.
ModelAnswers ==
    [ChatFields -> {"null", "undefined", "value"}]

\* The loop over Object.keys(body.previousData): a null of the answer is
\* replaced by the previous value, when previousData holds the key with a
\* value other than null.
MergePrevious(parsed, previous) ==
    IF ~previous.set THEN parsed
    ELSE [f \in ChatFields |->
             IF /\ previous.data[f] # "undefined"
                /\ parsed[f] = "null"
                /\ previous.data[f] # "null"
             THEN previous.data[f]
             ELSE parsed[f]]

\* if (parsed.number_of_adults === null) parsed.number_of_adults = 1
ApplyDefaults(parsed) ==
    [parsed EXCEPT !["number_of_adults"] = IF @ = "null" THEN "default" ELSE @]

MissingFields(parsed) ==
    {f \in RequiredFields : parsed[f] \in {"null", "undefined"}}

\* The response of the parse-flight route to an answer of the model.
ParseFlight(answer, previous) ==
    LET parsed == ApplyDefaults(MergePrevious(answer, previous))
    IN  [data |-> parsed, complete |-> MissingFields(parsed) = {},
         missingFields |-> MissingFields(parsed)]

NoResult == [ok |-> FALSE, complete |-> FALSE, missingFields |-> {}]

\* The page as it is mounted: the greeting, no flightParams.  sent is the
\* previousData of the request of parsePrompt while it is in flight.
ChatInit ==
    /\ chat = [pc |-> "idle", flightParams |-> NoData, sent |-> NoData,
               result |-> NoResult, lastMessage |-> "greeting",
               flights |-> "none", searchComplete |-> FALSE, error |-> FALSE]
    /\ PriceIdle
    /\ EstimateIdle
    /\ FlightsIdle
    /\ RouteIdle
    /\ HotelsIdle
    /\ ValidationIdle
    /\ PageIdle
    /\ PlacesIdle

ChatFrame ==
    UNCHANGED <<priceVars, estVars, flVars, routeVars, hotelVars, valVars,
                pageVars, placesVars>>

\* doSubmit up to the request of parsePrompt.
DoSubmit ==
    /\ chat.pc = "idle"
    /\ chat' = [chat EXCEPT !.pc = "parsing", !.sent = chat.flightParams,
                            !.error = FALSE, !.lastMessage = "user"]
    /\ ChatFrame

\* The route answers with an error (the model's text is no JSON, the
\* model's service fails): doSubmit reports it and keeps flightParams.
ParseFails ==
    /\ chat.pc = "parsing"
    /\ chat' = [chat EXCEPT !.pc = "idle", !.sent = NoData, !.error = TRUE,
                            !.lastMessage = "error"]
    /\ ChatFrame

\* The route answers with the merged data: setFlightParams, then the
\* follow-up question or the flight search.
ParseAnswers ==
    /\ chat.pc = "parsing"
    /\ \E answer \in ModelAnswers :
           LET parsed == ParseFlight(answer, chat.sent)
           IN  chat' = [chat EXCEPT
                          !.pc = IF parsed.complete THEN "searching" ELSE "idle",
                          !.flightParams = SomeData(parsed.data),
                          !.sent = NoData,
                          !.result = [ok |-> TRUE, complete |-> parsed.complete,
                                      missingFields |-> parsed.missingFields],
                          !.lastMessage = IF parsed.complete THEN "searching"
                                          ELSE "followUp"]
    /\ ChatFrame

FlightSearchAnswers ==
    /\ chat.pc = "searching"
    /\ \E found \in {"some", "none"} :
           chat' = [chat EXCEPT !.pc = "idle", !.flights = found,
                                !.searchComplete = TRUE, !.lastMessage = "results"]
    /\ ChatFrame

FlightSearchFails ==
    /\ chat.pc = "searching"
    /\ chat' = [chat EXCEPT !.pc = "idle", !.error = TRUE,
                            !.lastMessage = "error"]
    /\ ChatFrame

\* resetSearch of the chat page; loading is left as it is.
ChatReset ==
    /\ chat.lastMessage # "greeting"
    /\ chat' = [chat EXCEPT !.flightParams = NoData, !.flights = "none",
                            !.searchComplete = FALSE, !.error = FALSE,
                            !.lastMessage = "greeting"]
    /\ ChatFrame

ChatNext ==
    \/ DoSubmit
    \/ ParseFails
    \/ ParseAnswers
    \/ FlightSearchAnswers
    \/ FlightSearchFails
    \/ ChatReset

SpecChat == ChatInit /\ [][ChatNext]_vars

\* The required fields the data carries.
PresentFields(data) == RequiredFields \ MissingFields(data)

\* The step in which a turn's result arrives, the previous turn's data
\* having been sent as previousData.
TurnAnswered ==
    /\ chat.pc = "parsing"
    /\ chat.sent.set
    /\ chat'.lastMessage \in {"followUp", "searching"}

\* C27: when a turn's data is sent back as previousData, every required
\* field present in it is present in the next turn's data whatever the
\* model answers, so the missing fields do not grow and complete does not
\* turn from true to false.
C27_FieldsNeverLost ==
    [][TurnAnswered =>
          /\ PresentFields(chat.sent.data)
                 \subseteq PresentFields(chat'.flightParams.data)
          /\ MissingFields(chat.sent.data) = {} => chat'.result.complete]_vars

(***************************************************************************)
(* The trip page.  A search is numbered by the order of its submission;    *)
(* what a provider answers to search s is named by s: the flight and the   *)
(* hotel of id s, the prices and the image of s, the plan of s with its    *)
(* activity keys.  0 is null.  net holds the requests in flight, each      *)
(* with the values its closure has captured.                               *)
(***************************************************************************)
MaxSearches == 2   \* most searches submitted on a generated page

Searches == 1..MaxSearches

\* The keys "day-timeOfDay-index" of the activities of a plan.
ActivityKeys == {"1-morning-0", "2-morning-0"}

PlanChoices == {{"1-morning-0"}, ActivityKeys}

NoPlan == [search |-> 0, keys |-> {}]

Request(kind, s) ==
    [kind |-> kind, search |-> s, dates |-> FALSE, airports |-> FALSE, keys |-> {}]

PageInit ==
    /\ page = [loading |-> FALSE, error |-> FALSE, flightParams |-> 0,
               itineraryPlan |-> NoPlan, hotels |-> {}, flights |-> {},
               activityPrices |-> NoPlan, cityImage |-> 0,
               selectedFlight |-> 0, selectedHotel |-> 0,
               selectedActivities |-> {}, submitted |-> 0, cleared |-> FALSE]
    /\ net = {}
    /\ PriceIdle
    /\ EstimateIdle
    /\ FlightsIdle
    /\ RouteIdle
    /\ HotelsIdle
    /\ ValidationIdle
    /\ ChatIdle
    /\ PlacesIdle

PageFrame ==
    UNCHANGED <<priceVars, estVars, flVars, routeVars, hotelVars, valVars,
                chatVars, placesVars>>

InFlight(kind, s) == \E r \in net : r.kind = kind /\ r.search = s

Answered(kind, s) == {r \in net : ~(r.kind = kind /\ r.search = s)}

\* parseAndGenerateItinerary up to the request to parse-trip.
Submit ==
    /\ ~page.loading
    /\ page.submitted < MaxSearches
    /\ page' = [page EXCEPT !.loading = TRUE, !.error = FALSE,
                            !.submitted = @ + 1, !.cleared = FALSE]
    /\ net' = net \cup {Request("parse", page.submitted + 1)}
    /\ PageFrame

\* parse-trip answers: setFlightParams, then the request to plan.  The
\* data may lack the dates or the airport codes.
TripParsed(s) ==
    /\ InFlight("parse", s)
    /\ \E found \in {<<TRUE, TRUE>>, <<TRUE, FALSE>>, <<FALSE, FALSE>>} :
           net' = Answered("parse", s)
                      \cup {[Request("plan", s) EXCEPT !.dates = found[1],
                                                       !.airports = found[2]]}
    /\ page' = [page EXCEPT !.flightParams = s]
    /\ PageFrame

\* parse-trip or plan fails: the catch and the finally.
SearchFails(s) ==
    /\ \E kind \in {"parse", "plan"} :
           /\ InFlight(kind, s)
           /\ net' = Answered(kind, s)
    /\ page' = [page EXCEPT !.error = TRUE, !.loading = FALSE]
    /\ PageFrame

\* plan answers: setItineraryPlan, then fetchHotels, fetchFlights,
\* fetchActivityPrices and fetchCityImage up to their requests.
Planned(s) ==
    /\ \E r \in net, keys \in PlanChoices :
           /\ r.kind = "plan" /\ r.search = s
           /\ net' = (net \ {r})
                  \cup (IF r.dates THEN {Request("hotels", s)} ELSE {})
                  \cup (IF r.airports /\ r.dates THEN {Request("flights", s)} ELSE {})
                  \cup {[Request("prices", s) EXCEPT !.keys = keys],
                        Request("image", s)}
           /\ page' = [page EXCEPT !.itineraryPlan = [search |-> s, keys |-> keys],
                                   !.cityImage = 0, !.loading = FALSE]
    /\ PageFrame

\* hotels answers: setHotels(data.hotels || []), here with one hotel.
HotelsFetched(s) ==
    /\ InFlight("hotels", s)
    /\ net' = Answered("hotels", s)
    /\ page' = [page EXCEPT !.hotels = {s}]
    /\ PageFrame

\* flights answers: setFlights(data.flights || []), here with one flight.
FlightsFetched(s) ==
    /\ InFlight("flights", s)
    /\ net' = Answered("flights", s)
    /\ page' = [page EXCEPT !.flights = {s}]
    /\ PageFrame

\* The activity price route answers: setActivityPrices(newPrices), under
\* the keys of the plan fetchActivityPrices was called with.
PricesFetched(s) ==
    /\ \E r \in net :
           /\ r.kind = "prices" /\ r.search = s
           /\ net' = net \ {r}
           /\ page' = [page EXCEPT !.activityPrices =
                                       [search |-> s, keys |-> r.keys]]
    /\ PageFrame

\* city-image answers with an image: setCityImage.
ImageFetched(s) ==
    /\ InFlight("image", s)
    /\ net' = Answered("image", s)
    /\ page' = [page EXCEPT !.cityImage = s]
    /\ PageFrame

\* hotels, flights, the price route or city-image fails: an error text at
\* most, the lists as they are.
FetchFails(s) ==
    /\ \E kind \in {"hotels", "flights", "prices", "image"} :
           /\ InFlight(kind, s)
           /\ net' = Answered(kind, s)
    /\ UNCHANGED page
    /\ PageFrame

\* resetSearch, behind the button shown with a plan or flightParams.
ResetSearch ==
    /\ page.itineraryPlan # NoPlan \/ page.flightParams # 0
    /\ page' = [page EXCEPT !.error = FALSE, !.flightParams = 0,
                            !.itineraryPlan = NoPlan, !.hotels = {},
                            !.flights = {}, !.activityPrices = NoPlan,
                            !.cityImage = 0, !.selectedFlight = 0,
                            !.selectedHotel = 0, !.selectedActivities = {},
                            !.cleared = TRUE]
    /\ UNCHANGED net
    /\ PageFrame

\* The sidebar shows the plan with its lists.
SidebarShown == ~page.loading /\ page.itineraryPlan # NoPlan

\* A click on a flight of the list.
SelectFlight ==
    /\ SidebarShown
    /\ \E f \in page.flights :
           page' = [page EXCEPT !.selectedFlight = IF @ = f THEN 0 ELSE f]
    /\ UNCHANGED net
    /\ PageFrame

\* A click on a hotel of the list.
SelectHotel ==
    /\ SidebarShown
    /\ \E h \in page.hotels :
           page' = [page EXCEPT !.selectedHotel = IF @ = h THEN 0 ELSE h]
    /\ UNCHANGED net
    /\ PageFrame

\* toggleActivitySelection on an activity of the plan.
ToggleActivity ==
    /\ SidebarShown
    /\ \E key \in page.itineraryPlan.keys :
           page' = [page EXCEPT !.selectedActivities =
                       IF key \in @ THEN @ \ {key} ELSE @ \cup {key}]
    /\ UNCHANGED net
    /\ PageFrame

PageNext ==
    \/ Submit
    \/ \E s \in Searches : TripParsed(s)
    \/ \E s \in Searches : SearchFails(s)
    \/ \E s \in Searches : Planned(s)
    \/ \E s \in Searches : HotelsFetched(s)
    \/ \E s \in Searches : FlightsFetched(s)
    \/ \E s \in Searches : PricesFetched(s)
    \/ \E s \in Searches : ImageFetched(s)
    \/ \E s \in Searches : FetchFails(s)
    \/ ResetSearch
    \/ SelectFlight
    \/ SelectHotel
    \/ ToggleActivity

SpecPage == PageInit /\ [][PageNext]_vars

\* C28: once resetSearch has run and until a new search is submitted,
\* flightParams, itineraryPlan, hotels, flights, activityPrices and
\* cityImage stay cleared, whatever requests were in flight at the reset.
C28_ResetStaysCleared ==
    page.cleared =>
        /\ page.flightParams = 0
        /\ page.itineraryPlan = NoPlan
        /\ page.hotels = {}
        /\ page.flights = {}
        /\ page.activityPrices = NoPlan
        /\ page.cityImage = 0

\* C29: selectedFlight is null or among the flights listed, selectedHotel
\* is null or among the hotels listed, and every key selected is a key of
\* an activity of the plan shown.
C29_SelectionsAreCurrent ==
    /\ page.selectedFlight = 0 \/ page.selectedFlight \in page.flights
    /\ page.selectedHotel = 0 \/ page.selectedHotel \in page.hotels
    /\ page.selectedActivities \subseteq page.itineraryPlan.keys

(***************************************************************************)
(* The places-based activities route, from the places found to the         *)
(* response: the places become activities, the model is asked for a day    *)
(* plan naming activities by id, and the plan is enriched with the         *)
(* activities; without a usable answer the activities are dealt out over   *)
(* the days.                                                               *)
(***************************************************************************)
MaxPlaces == 2     \* most places found, and most entries of a day of the plan

MaxDays == 2       \* most days of a trip and of a plan

MaxActivities == 30

PlaceKinds ==
    {[place_id |-> "p1", name |-> "Louvre Museum"],
     [place_id |-> "p2", name |-> "Eiffel Tower"],
     [place_id |-> "", name |-> "Cafe de Flore"]}

\* The ids the model names: those of places, and one of no place.
PlanIds == {"p1", "p2", "x9"}

\* Decimal text of a small index.
IndexText(n) == CASE n = 0 -> "0" [] n = 1 -> "1" [] n = 2 -> "2" [] OTHER -> "3"

\* places.slice(0, Math.min(places.length, 30)).map((place, idx) => ...)
ToActivities(places) ==
    LET kept == Slice(places, MaxActivities)
    IN  [k \in 1..Len(kept) |->
            [id |-> IF kept[k].place_id # "" THEN kept[k].place_id
                    ELSE "place_" \o IndexText(k - 1),
             name |-> kept[k].name]]

\* new Map(activities.map(a => [a.id, a])).get(id): the last activity of
\* that id, undefined (0) when there is none.
RECURSIVE ActivityIndex(_, _, _)
ActivityIndex(activities, id, k) ==
    IF k = 0 THEN 0
    ELSE IF activities[k].id = id THEN k
    ELSE ActivityIndex(activities, id, k - 1)

\* { ...fullActivity, time, duration, notes }: an object in any case,
\* without id and name when fullActivity is undefined.
EnrichEntry(activities, act) ==
    LET k == ActivityIndex(activities, act.id, Len(activities))
    IN  IF k = 0 THEN [object |-> TRUE, id |-> "undefined", name |-> "undefined",
                       time |-> act.time]
        ELSE [object |-> TRUE, id |-> activities[k].id,
              name |-> activities[k].name, time |-> act.time]

\* .filter((act) => act !== undefined)
FilterDefined(entries) == SelectSeq(entries, LAMBDA e : e.object)

EnrichItinerary(activities, plan) ==
    [d \in 1..Len(plan) |->
        [day |-> plan[d].day,
         activities |->
             FilterDefined([k \in 1..Len(plan[d].activities) |->
                               EnrichEntry(activities, plan[d].activities[k])])]]

Times == <<"09:00", "12:00", "15:00", "18:00">>

\* Math.ceil(activities.length / days)
CeilDiv(n, d) == (n + d - 1) \div d

Min(a, b) == IF a < b THEN a ELSE b

\* generateFallbackItinerary
FallbackItinerary(activities, days) ==
    LET perDay == CeilDiv(Len(activities), days)
    IN  [d \in 1..days |->
            LET startIdx == (d - 1) * perDay
                endIdx == Min(startIdx + perDay, Len(activities))
                dayActivities == SubSeq(activities, startIdx + 1, endIdx)
            IN  [day |-> d,
                 activities |->
                     [k \in 1..Len(dayActivities) |->
                         [object |-> TRUE, id |-> dayActivities[k].id,
                          name |-> dayActivities[k].name,
                          time |-> Times[((k - 1) % Len(Times)) + 1]]]]]

\* The day plans the model may answer.
PlanEntries ==
    UNION {[1..n -> [id : PlanIds, time : {"09:00"}]] : n \in 0..MaxPlaces}

PlanAnswersOf(days) ==
    [1..days -> [day : {1}, activities : PlanEntries]]

PlacesInit ==
    /\ \E n \in 1..MaxPlaces, days \in 1..MaxDays :
       \E places \in [1..n -> PlaceKinds], plan \in PlanAnswersOf(days) :
           plIn = [places |-> places, days |-> days,
                   plan |-> [d \in 1..days |-> [plan[d] EXCEPT !.day = d]]]
    /\ plPc = "plan"
    /\ plOut = <<>>
    /\ PriceIdle
    /\ EstimateIdle
    /\ FlightsIdle
    /\ RouteIdle
    /\ HotelsIdle
    /\ ValidationIdle
    /\ ChatIdle
    /\ PageIdle

PlacesFrame ==
    UNCHANGED <<plIn, priceVars, estVars, flVars, routeVars, hotelVars, valVars,
                chatVars, pageVars>>

\* The model answers with the plan: the enriched itinerary is returned.
PlanAnswered ==
    /\ plPc = "plan"
    /\ plOut' = [source |-> "plan",
                 itinerary |-> EnrichItinerary(ToActivities(plIn.places), plIn.plan)]
    /\ plPc' = "done"
    /\ PlacesFrame

\* The model's service fails or its text is no JSON: the fallback.
PlanUnavailable ==
    /\ plPc = "plan"
    /\ plOut' = [source |-> "fallback",
                 itinerary |-> FallbackItinerary(ToActivities(plIn.places), plIn.days)]
    /\ plPc' = "done"
    /\ PlacesFrame

PlacesNext ==
    \/ PlanAnswered
    \/ PlanUnavailable

SpecPlaces == PlacesInit /\ [][PlacesNext]_vars

\* The entry is one of the activities found.
IsFoundActivity(entry) ==
    \E k \in 1..Len(plIn.places) :
        LET a == ToActivities(plIn.places)[k]
        IN  entry.id = a.id /\ entry.name = a.name

\* C30: every activity entry of every day of the itinerary returned is one
\* of the activities found for the destination, with its id and name; an
\* entry of the plan whose id matches no activity is dropped.
C30_EntriesAreFoundActivities ==
    plPc = "done" =>
        \A d \in 1..Len(plOut.itinerary) :
            \A k \in 1..Len(plOut.itinerary[d].activities) :
                IsFoundActivity(plOut.itinerary[d].activities[k])

====
